---- MODULE Spec2Model ----
(***************************************************************************)
(* Alert detector (core/alerts.ts), market data fetcher (core/markets.ts)  *)
(* and cron scheduler (cron/scheduler.ts) of smaira-cron-rep.              *)
(*                                                                         *)
(* Numbers are integers: prices, volumes and percentages are drawn from    *)
(* small integer sets chosen so that every percentage the detector         *)
(* computes is a whole number (see VolumeChangeExact).                     *)
(***************************************************************************)
EXTENDS Integers, Sequences, FiniteSets, Bags, TLC

VARIABLES
    state,          \* alerts.ts `state`: lastPrices, lastVolumes, lastCheck, knownTokens
    now,            \* the wall clock read by `new Date()`
    calls,          \* bag of checkAlerts invocations suspended at `await fetchMarketData()`
    outcome,        \* how the last finished checkAlerts ended: "none" | "returned" | "thrown"
    alertConfig,    \* alertConfig of the last finished checkAlerts
    tokens,         \* `tokens` of the last finished checkAlerts (the fetched batch)
    alerts,         \* `alerts` returned by the last finished checkAlerts
    pre,            \* `state` as the last finished checkAlerts found it when its fetch resolved
    lastSeen,       \* history: address -> what the loop last processed for it since the last reset
    everVerified,   \* history: addresses processed with verified = true since the last reset
    lastCall,       \* history, kept where a property needs it: the batch and configuration
                    \* of the last checkAlerts whose result was handed back, if any
    snapshot,       \* what a getMarketSnapshot that just ended hands to its caller, if any
    scheduledTasks, \* scheduler.ts `scheduledTasks`: job name -> id of its ScheduledTask
    cronTasks,      \* the ScheduledTask objects cron.schedule has created, by id
    jobStatus,      \* scheduler.ts `jobStatus`: job name -> {lastRun, lastError?}
    jobRuns,        \* bag of job tasks other than checkAlerts that are awaiting their work
    apiError,       \* what the last scheduleJob / runJobNow call threw ("" when it returned)
    formatted,      \* what a formatAlerts that just ended hands to its caller, if any
    dca             \* dca.ts analyzeDCA: the call under way or just ended, if any

schedVars == <<scheduledTasks, cronTasks, jobStatus, jobRuns, apiError>>

reportVars == <<formatted, dca>>

vars == <<state, now, calls, outcome, alertConfig, tokens, alerts, pre, lastSeen, everVerified,
          lastCall, snapshot, scheduledTasks, cronTasks, jobStatus, jobRuns, apiError,
          formatted, dca>>

(***************************************************************************)
(* Bounds of the model.                                                    *)
(***************************************************************************)
MaxBatch == 2       \* longest batch the upstream returns
MaxInFlight == 2    \* most checkAlerts invocations awaiting their fetch at once
MaxClock == 1       \* the clock stops advancing here
MaxTasks == 4       \* most ScheduledTask objects cron.schedule creates in a run
MaxCalls == 2       \* most checkAlerts calls started in a run that logs every completed call
MaxAlerts == 4      \* longest alert list handed to formatAlerts
MaxRepeat == 11     \* most repetitions of a short batch in what getMarketSnapshot is served

(***************************************************************************)
(* String.prototype.toUpperCase on the symbols of the model.               *)
(***************************************************************************)
UpperTable == ("eth" :> "ETH") @@ ("strk" :> "STRK")

ToUpperCase(s) == IF s \in DOMAIN UpperTable THEN UpperTable[s] ELSE s

(***************************************************************************)
(* utils/config.ts: defaultConfig with no environment overrides.           *)
(***************************************************************************)
DefaultWatchlist == <<"ETH", "STRK", "USDC", "LORDS", "ZEND", "BROTHER", "NSTR">>

DefaultPriceChangeThreshold == 5

DefaultVolumeSpikeThreshold == 200

getConfig ==
    [watchlist |-> DefaultWatchlist,
     alerts |-> [priceChangeThreshold |-> DefaultPriceChangeThreshold,
                 volumeSpikeThreshold |-> DefaultVolumeSpikeThreshold]]

Range(s) == {s[i] : i \in DOMAIN s}

Abs(x) == IF x < 0 THEN -x ELSE x

(***************************************************************************)
(* markets.ts fetchMarketData: the upstream record -> TokenMarketData.     *)
(* `x || 0` maps undefined (and 0) to 0; verified is the tag test.         *)
(* An optional field of the upstream record is a field the record lacks.   *)
(***************************************************************************)
OrZero(t, field) == IF field \in DOMAIN t THEN t[field] ELSE 0

IsVerified(t) ==
    IF "tags" \in DOMAIN t THEN ("Community" \in t.tags \/ "AVNU" \in t.tags) ELSE FALSE

NormalizeToken(t) ==
    [symbol |-> t.symbol,
     address |-> t.address,
     priceUsd |-> OrZero(t, "usd"),
     volume24h |-> OrZero(t, "usdVolume24h"),
     priceChange24h |-> OrZero(t, "usdPriceChangePercentage24h"),
     verified |-> IsVerified(t)]

fetchMarketData(rawData) == [i \in DOMAIN rawData |-> NormalizeToken(rawData[i])]

(***************************************************************************)
(* alerts.ts checkAlerts, lines 94-99: the effective configuration.        *)
(* `config` is a Partial<AlertConfig>: a record with some of the fields.   *)
(***************************************************************************)
Coalesce(config, field, d) == IF field \in DOMAIN config THEN config[field] ELSE d

ResolveConfig(config) ==
    [priceChangeThreshold |->
        Coalesce(config, "priceChangeThreshold", getConfig.alerts.priceChangeThreshold),
     volumeSpikeThreshold |->
        Coalesce(config, "volumeSpikeThreshold", getConfig.alerts.volumeSpikeThreshold),
     watchlist |-> Coalesce(config, "watchlist", getConfig.watchlist)]

(***************************************************************************)
(* The loop body of checkAlerts.  An alert carries `rec`, the position of  *)
(* its token in the batch, which the Alert interface does not have: it     *)
(* lets a property name the record an alert was raised for.  message and   *)
(* timestamp are left out.                                                 *)
(***************************************************************************)
\* mutant: the symbol compared as it is spelled
Considered_NoUpperCase(token, cfg) ==
    ~ (Len(cfg.watchlist) > 0 /\ token.symbol \notin Range(cfg.watchlist))

Considered(token, cfg) ==
    ~ (Len(cfg.watchlist) > 0 /\ ToUpperCase(token.symbol) \notin Range(cfg.watchlist))

\* mutant: the cut points taken inclusively
PriceSeverity_Inclusive(change) ==
    IF Abs(change) >= 20 THEN "high" ELSE IF Abs(change) >= 10 THEN "medium" ELSE "low"

PriceSeverity(change) ==
    IF Abs(change) > 20 THEN "high" ELSE IF Abs(change) > 10 THEN "medium" ELSE "low"

\* mutant: the two price alert types swapped
PriceAlertType_Swapped(change) == IF change > 0 THEN "price_drop" ELSE "price_surge"

PriceAlertType(change) == IF change > 0 THEN "price_surge" ELSE "price_drop"

PriceAlerts(token, i, cfg) ==
    IF Abs(token.priceChange24h) >= cfg.priceChangeThreshold
    THEN << [type |-> PriceAlertType(token.priceChange24h),
             symbol |-> token.symbol,
             value |-> token.priceChange24h,
             threshold |-> cfg.priceChangeThreshold,
             severity |-> PriceSeverity(token.priceChange24h),
             rec |-> i] >>
    ELSE << >>

\* mutant: the maps keyed by the symbol
KeyOf_Symbol(token) == token.symbol

KeyOf(token) == token.address

MapHas(m, k) == k \in DOMAIN m

MapSet(m, k, v) == [x \in DOMAIN m \cup {k} |-> IF x = k THEN v ELSE m[x]]

VolumeChange(volume, lastVolume) == ((volume - lastVolume) * 100) \div lastVolume

\* mutant: the cut points taken inclusively
VolumeSeverity_Inclusive(volumeChange) ==
    IF volumeChange >= 500 THEN "high" ELSE IF volumeChange >= 300 THEN "medium" ELSE "low"

VolumeSeverity(volumeChange) ==
    IF volumeChange > 500 THEN "high" ELSE IF volumeChange > 300 THEN "medium" ELSE "low"

\* `lastVolume && lastVolume > 0` for lastVolume = state.lastVolumes.get(key)
HasBaseline(lastVolumes, key) ==
    MapHas(lastVolumes, key) /\ lastVolumes[key] # 0 /\ lastVolumes[key] > 0

\* mutant: a missing last volume read as a baseline of 1
VolumeAlerts_DefaultBaseline(st, token, i, cfg) ==
    LET lastVolume == IF MapHas(st.lastVolumes, token.address)
                      THEN st.lastVolumes[token.address] ELSE 1
        volumeChange == VolumeChange(token.volume24h, lastVolume) IN
    IF lastVolume > 0 /\ volumeChange >= cfg.volumeSpikeThreshold
    THEN << [type |-> "volume_spike",
             symbol |-> token.symbol,
             value |-> volumeChange,
             threshold |-> cfg.volumeSpikeThreshold,
             severity |-> VolumeSeverity(volumeChange),
             rec |-> i] >>
    ELSE << >>

VolumeAlerts(st, token, i, cfg) ==
    IF HasBaseline(st.lastVolumes, KeyOf(token))
    THEN LET lastVolume == st.lastVolumes[KeyOf(token)]
             volumeChange == VolumeChange(token.volume24h, lastVolume) IN
         IF volumeChange >= cfg.volumeSpikeThreshold
         THEN << [type |-> "volume_spike",
                  symbol |-> token.symbol,
                  value |-> volumeChange,
                  threshold |-> cfg.volumeSpikeThreshold,
                  severity |-> VolumeSeverity(volumeChange),
                  rec |-> i] >>
         ELSE << >>
    ELSE << >>

\* mutant: the verified flag not tested
IsNewToken_IgnoresVerified(st, token) == token.address \notin st.knownTokens

IsNewToken(st, token) == KeyOf(token) \notin st.knownTokens /\ token.verified

NewTokenAlerts(st, token, i) ==
    IF IsNewToken(st, token)
    THEN << [type |-> "new_token",
             symbol |-> token.symbol,
             value |-> 0,
             threshold |-> 0,
             severity |-> "medium",
             rec |-> i] >>
    ELSE << >>

\* mutant: an address already known keeps its old price and volume
UpdateState_OnlyNew(st, token) ==
    IF token.address \in st.knownTokens THEN st
    ELSE [st EXCEPT !.lastPrices = MapSet(@, token.address, token.priceUsd),
                    !.lastVolumes = MapSet(@, token.address, token.volume24h),
                    !.knownTokens = @ \cup {token.address}]

\* mutant: only verified addresses become known
UpdateState_KnownIfVerified(st, token) ==
    [st EXCEPT !.lastPrices = MapSet(@, token.address, token.priceUsd),
               !.lastVolumes = MapSet(@, token.address, token.volume24h),
               !.knownTokens = IF token.verified THEN @ \cup {token.address} ELSE @]

\* mutant: the volume written for an address only when it has none
UpdateState_KeepsVolume(st, token) ==
    [st EXCEPT !.lastPrices = MapSet(@, token.address, token.priceUsd),
               !.lastVolumes = IF MapHas(@, token.address) THEN @
                               ELSE MapSet(@, token.address, token.volume24h),
               !.knownTokens = @ \cup {token.address}]

UpdateState(st, token) ==
    [st EXCEPT !.lastPrices = MapSet(@, KeyOf(token), token.priceUsd),
               !.lastVolumes = MapSet(@, KeyOf(token), token.volume24h),
               !.knownTokens = @ \cup {KeyOf(token)}]

\* mutant: the state written before the comparisons of the record
ProcessToken_UpdateFirst(acc, token, i, cfg) ==
    IF ~ Considered(token, cfg)
    THEN acc
    ELSE LET st == UpdateState(acc.state, token) IN
         [state |-> st,
          alerts |-> acc.alerts \o PriceAlerts(token, i, cfg)
                                \o VolumeAlerts(st, token, i, cfg)
                                \o NewTokenAlerts(st, token, i)]

\* mutant: the new-token check made first
ProcessToken_NewTokenFirst(acc, token, i, cfg) ==
    IF ~ Considered(token, cfg)
    THEN acc
    ELSE [state |-> UpdateState(acc.state, token),
          alerts |-> acc.alerts \o NewTokenAlerts(acc.state, token, i)
                                \o PriceAlerts(token, i, cfg)
                                \o VolumeAlerts(acc.state, token, i, cfg)]

\* mutant: a price alert raised only for an address not seen before
ProcessToken_PriceOncePerAddress(acc, token, i, cfg) ==
    IF ~ Considered(token, cfg)
    THEN acc
    ELSE [state |-> UpdateState(acc.state, token),
          alerts |-> acc.alerts
                        \o (IF MapHas(acc.state.lastPrices, token.address)
                            THEN << >> ELSE PriceAlerts(token, i, cfg))
                        \o VolumeAlerts(acc.state, token, i, cfg)
                        \o NewTokenAlerts(acc.state, token, i)]

\* one iteration: acc = [state, alerts]
ProcessToken(acc, token, i, cfg) ==
    IF ~ Considered(token, cfg)
    THEN acc
    ELSE [state |-> UpdateState(acc.state, token),
          alerts |-> acc.alerts \o PriceAlerts(token, i, cfg)
                                \o VolumeAlerts(acc.state, token, i, cfg)
                                \o NewTokenAlerts(acc.state, token, i)]

RECURSIVE CheckLoop_EmptyForgets(_, _, _, _)
\* mutant: an empty batch taken as "the market is gone", the maps cleared
CheckLoop_EmptyForgets(st, batch, n, cfg) ==
    IF batch = << >>
    THEN [state |-> [st EXCEPT !.lastPrices = << >>, !.lastVolumes = << >>,
                               !.knownTokens = {}],
          alerts |-> << >>]
    ELSE IF n = 0
         THEN [state |-> st, alerts |-> << >>]
         ELSE ProcessToken(CheckLoop_EmptyForgets(st, batch, n - 1, cfg), batch[n], n, cfg)

RECURSIVE CheckLoop(_, _, _, _)
\* the state and alerts after iterations 1..n of `for (const token of tokens)`
CheckLoop(st, batch, n, cfg) ==
    IF n = 0
    THEN [state |-> st, alerts |-> << >>]
    ELSE ProcessToken(CheckLoop(st, batch, n - 1, cfg), batch[n], n, cfg)

(***************************************************************************)
(* The inputs of the model: what the upstream serves and what callers pass.*)
(***************************************************************************)
Addresses == {"0x1", "0x2"}

\* upstream records with every optional field present
RawFull(symbols, addresses, usds, volumes, changes, tagSets) ==
    [symbol : symbols, address : addresses, usd : usds, usdVolume24h : volumes,
     usdPriceChangePercentage24h : changes, tags : tagSets]

\* upstream records without `starknet` data and without tags
RawBare(symbols, addresses) == [symbol : symbols, address : addresses]

Batches(raw) == UNION {[1..n -> raw] : n \in 0..MaxBatch}

\* the volumes of the model: every volume change between them is a whole percentage
Volumes == {0, 1, 4}

VolumeChangeExact ==
    \A v \in Volumes, l \in Volumes \ {0} : ((v - l) * 100) % l = 0

\* ETH and STRK are on the default watchlist, DOGE is not
RawTokens ==
    RawFull({"ETH"}, {"0x1"}, {3}, {1, 4}, {6}, {{"AVNU"}})
        \cup RawFull({"ETH"}, {"0x2"}, {3}, {4}, {6}, {{"AVNU"}})
        \cup RawBare({"ETH"}, {"0x1"})
        \cup RawFull({"STRK"}, {"0x1"}, {7}, {4}, {-6}, {{}})
        \cup RawFull({"DOGE"}, {"0x2"}, {7}, {4}, {-6}, {{"Community"}})

\* checkAlerts() and checkAlerts({watchlist: []})
Configs == {<< >>, [watchlist |-> << >>]}

\* what the history keeps of a processed token
Observation(token) ==
    [symbol |-> token.symbol, priceUsd |-> token.priceUsd, volume24h |-> token.volume24h]

EmptyState(t) ==
    [lastPrices |-> << >>, lastVolumes |-> << >>, lastCheck |-> t, knownTokens |-> {}]

(***************************************************************************)
(* Init: the module-level `state` of alerts.ts as constructed at load.     *)
(***************************************************************************)
Init ==
    /\ state = EmptyState(0)
    /\ now = 0
    /\ calls = EmptyBag
    /\ outcome = "none"
    /\ alertConfig = ResolveConfig(<< >>)
    /\ tokens = << >>
    /\ alerts = << >>
    /\ pre = EmptyState(0)
    /\ lastSeen = << >>
    /\ everVerified = {}
    /\ lastCall = {}
    /\ snapshot = {}
    /\ scheduledTasks = << >>
    /\ cronTasks = << >>
    /\ jobStatus = << >>
    /\ jobRuns = EmptyBag
    /\ apiError = ""
    /\ formatted = {}
    /\ dca = {}

(***************************************************************************)
(* The locals of a finished checkAlerts (outcome, alertConfig, tokens,     *)
(* alerts, pre) are kept for the one state in which the call returns or    *)
(* throws; Return hands the result to the caller and drops them.  The loop *)
(* and the return are synchronous, so nothing else runs in between.        *)
(***************************************************************************)
Idle == outcome = "none"

Return ==
    /\ ~ Idle
    /\ outcome' = "none"
    /\ alertConfig' = ResolveConfig(<< >>)
    /\ tokens' = << >>
    /\ alerts' = << >>
    /\ pre' = EmptyState(0)
    /\ UNCHANGED <<state, now, calls, lastSeen, everVerified, lastCall, snapshot, schedVars, reportVars>>

\* the same step with the history of the returned call kept
ReturnKept ==
    /\ ~ Idle
    /\ lastCall' = IF outcome = "returned"
                   THEN {[tokens |-> tokens, config |-> alertConfig]}
                   ELSE lastCall
    /\ outcome' = "none"
    /\ alertConfig' = ResolveConfig(<< >>)
    /\ tokens' = << >>
    /\ alerts' = << >>
    /\ pre' = EmptyState(0)
    /\ UNCHANGED <<state, now, calls, lastSeen, everVerified, snapshot, schedVars, reportVars>>

Tick ==
    /\ Idle
    /\ now < MaxClock
    /\ now' = now + 1
    /\ UNCHANGED <<state, calls, outcome, alertConfig, tokens, alerts, pre, lastSeen, everVerified,
                   lastCall, snapshot, schedVars, reportVars>>

(***************************************************************************)
(* checkAlerts, up to `await fetchMarketData()`: the configuration is      *)
(* resolved and the invocation suspends.                                   *)
(***************************************************************************)
\* who awaits a task: the timer callback of a job, runJobNow, or any other caller
Direct == [origin |-> "direct", job |-> ""]

InFlight == BagCardinality(calls) + BagCardinality(jobRuns)

Suspend(config, via) ==
    /\ Idle
    /\ InFlight < MaxInFlight
    /\ calls' = calls (+) SetToBag({[config |-> ResolveConfig(config), via |-> via]})

CheckAlertsCall(config) ==
    /\ Suspend(config, Direct)
    /\ UNCHANGED <<state, now, outcome, alertConfig, tokens, alerts, pre, lastSeen, everVerified,
                   lastCall, snapshot, schedVars, reportVars>>

(***************************************************************************)
(* scheduler.ts scheduleJob, the timer callback after `await job.task()`:  *)
(* it records lastRun, and lastError when the task threw.  A task awaited  *)
(* by runJobNow or by another caller leaves jobStatus alone.               *)
(***************************************************************************)
StatusAfter(failed) ==
    IF failed THEN [lastRun |-> now, lastError |-> "error"] ELSE [lastRun |-> now]

\* mutant: the new status merged into the old one, an earlier lastError kept
Settle_MergesStatus(via, failed) ==
    jobStatus' = IF via.origin = "timer"
                 THEN MapSet(jobStatus, via.job,
                             IF MapHas(jobStatus, via.job) /\ ~ failed
                             THEN [jobStatus[via.job] EXCEPT !.lastRun = now]
                             ELSE StatusAfter(failed))
                 ELSE jobStatus

Settle(via, failed) ==
    jobStatus' = IF via.origin = "timer"
                 THEN MapSet(jobStatus, via.job, StatusAfter(failed))
                 ELSE jobStatus

\* history: the last considered token of each address, in iteration order
RECURSIVE SeenAfter(_, _, _, _)
SeenAfter(seen, batch, n, cfg) ==
    IF n = 0 THEN seen
    ELSE LET s == SeenAfter(seen, batch, n - 1, cfg) IN
         IF Considered(batch[n], cfg)
         THEN MapSet(s, batch[n].address, Observation(batch[n]))
         ELSE s

ConsideredIdx(batch, cfg) == {i \in DOMAIN batch : Considered(batch[i], cfg)}

\* mutant: an await inside the record loop, the call suspending after each
\* record but the last and resuming where it stopped
FetchResolved_YieldsInLoop(call, rawData) ==
    /\ Idle
    /\ BagIn(call, calls)
    /\ LET resumed == "batch" \in DOMAIN call
           batch == IF resumed THEN call.batch ELSE fetchMarketData(rawData)
           at == IF resumed THEN call.at ELSE 1
           sofar == IF resumed THEN call.sofar ELSE << >>
           found == IF resumed THEN call.found ELSE state
           r == IF at > Len(batch)
                THEN [state |-> state, alerts |-> << >>]
                ELSE ProcessToken([state |-> state, alerts |-> << >>], batch[at], at,
                                  call.config)
       IN IF at < Len(batch)
          THEN /\ state' = r.state
               /\ calls' = (calls (-) SetToBag({call}))
                              (+) SetToBag({[config |-> call.config, via |-> call.via,
                                             batch |-> batch, at |-> at + 1,
                                             sofar |-> sofar \o r.alerts, found |-> found]})
               /\ UNCHANGED <<alerts, tokens, pre, alertConfig, outcome, lastSeen,
                              everVerified, jobStatus>>
          ELSE /\ state' = [r.state EXCEPT !.lastCheck = now]
               /\ alerts' = sofar \o r.alerts
               /\ tokens' = batch
               /\ pre' = found
               /\ lastSeen' = SeenAfter(lastSeen, batch, Len(batch), call.config)
               /\ everVerified' = everVerified \cup
                     {batch[i].address :
                         i \in {j \in ConsideredIdx(batch, call.config) : batch[j].verified}}
               /\ alertConfig' = call.config
               /\ outcome' = "returned"
               /\ calls' = calls (-) SetToBag({call})
               /\ Settle(call.via, FALSE)
    /\ UNCHANGED <<now, lastCall, snapshot, scheduledTasks, cronTasks, jobRuns, apiError,
                   reportVars>>

(***************************************************************************)
(* checkAlerts, from the resolution of the fetch to `return alerts`: no    *)
(* await in between, so the loop and the lastCheck write are one step.     *)
(***************************************************************************)
FetchResolved(call, rawData) ==
    /\ Idle
    /\ BagIn(call, calls)
    /\ LET batch == fetchMarketData(rawData)
           r == CheckLoop(state, batch, Len(batch), call.config)
       IN /\ state' = [r.state EXCEPT !.lastCheck = now]
          /\ alerts' = r.alerts
          /\ tokens' = batch
          /\ lastSeen' = SeenAfter(lastSeen, batch, Len(batch), call.config)
          /\ everVerified' = everVerified \cup
                {batch[i].address : i \in {j \in ConsideredIdx(batch, call.config) : batch[j].verified}}
    /\ pre' = state
    /\ alertConfig' = call.config
    /\ outcome' = "returned"
    /\ calls' = calls (-) SetToBag({call})
    /\ Settle(call.via, FALSE)
    /\ UNCHANGED <<now, lastCall, snapshot, scheduledTasks, cronTasks, jobRuns, apiError, reportVars>>

(***************************************************************************)
(* checkAlerts when fetchMarketData rejects: the await throws, the rest of *)
(* the function does not run.                                              *)
(***************************************************************************)
\* mutant: a rejected fetch handled as an empty batch
FailedState_AsEmptyBatch(st) == [st EXCEPT !.lastCheck = now]

FailedState(st) == st

FetchRejected(call) ==
    /\ Idle
    /\ BagIn(call, calls)
    /\ state' = FailedState(state)
    /\ alerts' = << >>
    /\ tokens' = << >>
    /\ pre' = state
    /\ alertConfig' = call.config
    /\ outcome' = "thrown"
    /\ calls' = calls (-) SetToBag({call})
    /\ Settle(call.via, TRUE)
    /\ UNCHANGED <<now, lastSeen, everVerified, lastCall, snapshot, scheduledTasks, cronTasks,
                   jobRuns, apiError, reportVars>>

\* mutant: the known addresses survive the reset
resetAlertState_KeepsKnown ==
    /\ Idle
    /\ state' = [EmptyState(now) EXCEPT !.knownTokens = state.knownTokens]
    /\ lastSeen' = << >>
    /\ everVerified' = {}
    /\ UNCHANGED <<now, calls, outcome, alertConfig, tokens, alerts, pre, lastCall, snapshot,
                   schedVars, reportVars>>

resetAlertState ==
    /\ Idle
    /\ state' = EmptyState(now)
    /\ lastSeen' = << >>
    /\ everVerified' = {}
    /\ UNCHANGED <<now, calls, outcome, alertConfig, tokens, alerts, pre, lastCall, snapshot,
                   schedVars, reportVars>>

Next ==
    \/ Tick
    \/ \E config \in Configs : CheckAlertsCall(config)
    \/ \E call \in BagToSet(calls), rawData \in Batches(RawTokens) : FetchResolved(call, rawData)
    \/ \E call \in BagToSet(calls) : FetchRejected(call)
    \/ resetAlertState
    \/ Return

Spec == Init /\ [][Next]_vars

(***************************************************************************)
(* The same program fed price changes around the severity cut points and   *)
(* called with explicit price thresholds, zero included.  No claim about   *)
(* prices reads the clock, so the clock stands still here.                 *)
(***************************************************************************)
PriceChanges == {-21, -20, -11, -10, -5, -4, 0, 4, 5, 10, 11, 20, 21}

PriceRawTokens == RawFull({"ETH"}, {"0x1"}, {3}, {1}, PriceChanges, {{}})

PriceConfigs ==
    {[priceChangeThreshold |-> t, watchlist |-> << >>] : t \in {0, 5, 15}}

NextPrice ==
    \/ \E config \in PriceConfigs : CheckAlertsCall(config)
    \/ \E call \in BagToSet(calls), rawData \in Batches(PriceRawTokens) :
          FetchResolved(call, rawData)
    \/ \E call \in BagToSet(calls) : FetchRejected(call)
    \/ resetAlertState
    \/ Return

SpecPrice == Init /\ [][NextPrice]_vars

(***************************************************************************)
(* The same program fed volumes whose ratios sit on and around the spike   *)
(* threshold and the severity cut points: against a last volume of 1 the   *)
(* volumes 3, 4, 6, 7 are changes of 200, 300, 500, 600 percent.  One unit *)
(* of volume stands for 1_000_000; the percentage depends on the ratio     *)
(* only.  Every change that reaches the smallest threshold is a whole      *)
(* number (SpikeValuesExact), so the integer quotient is the quotient.     *)
(***************************************************************************)
SpikeVolumes == {0, 1, 3, 4, 6, 7}

SpikeThresholds == {200, 300}

SpikeValuesExact ==
    \A v \in SpikeVolumes, l \in SpikeVolumes \ {0}, t \in SpikeThresholds :
        (v - l) * 100 >= t * l => ((v - l) * 100) % l = 0

VolumeRawTokens ==
    RawFull({"ETH"}, {"0x1"}, {3}, SpikeVolumes, {0}, {{}})
        \cup RawFull({"ETH"}, {"0x2"}, {3}, {0, 4}, {0}, {{}})

VolumeConfigs ==
    {[volumeSpikeThreshold |-> t, watchlist |-> << >>] : t \in SpikeThresholds}

NextVolume ==
    \/ \E config \in VolumeConfigs : CheckAlertsCall(config)
    \/ \E call \in BagToSet(calls), rawData \in Batches(VolumeRawTokens) :
          FetchResolved(call, rawData)
    \/ \E call \in BagToSet(calls) : FetchRejected(call)
    \/ resetAlertState
    \/ Return

SpecVolume == Init /\ [][NextVolume]_vars

(***************************************************************************)
(* The same program called with the default watchlist, an empty one and a  *)
(* one-symbol one, on symbols in either case: "eth" and "DOGE" share the   *)
(* address 0x1.                                                            *)
(***************************************************************************)
WatchRawTokens ==
    RawFull({"eth", "DOGE"}, {"0x1"}, {3}, {1, 4}, {6}, {{"AVNU"}})
        \cup RawFull({"ETH"}, {"0x2"}, {3}, {4}, {6}, {{"AVNU"}})

WatchConfigs == {<< >>, [watchlist |-> << >>], [watchlist |-> <<"DOGE">>]}

NextWatch ==
    \/ \E config \in WatchConfigs : CheckAlertsCall(config)
    \/ \E call \in BagToSet(calls), rawData \in Batches(WatchRawTokens) :
          FetchResolved(call, rawData)
    \/ \E call \in BagToSet(calls) : FetchRejected(call)
    \/ resetAlertState
    \/ Return

SpecWatch == Init /\ [][NextWatch]_vars

(***************************************************************************)
(* The same program with the history of the last returned call kept, so    *)
(* that a call can be told to repeat the batch and the configuration of    *)
(* the call before it.  A spike threshold of 0 is among the configurations.*)
(***************************************************************************)
TwiceRawTokens ==
    RawFull({"ETH"}, {"0x1"}, {3}, {1, 4}, {6}, {{"AVNU"}})
        \cup RawFull({"ETH"}, {"0x2"}, {3}, {4}, {6}, {{}, {"AVNU"}})

TwiceConfigs == {<< >>, [volumeSpikeThreshold |-> 0]}

NextTwice ==
    \/ \E config \in TwiceConfigs : CheckAlertsCall(config)
    \/ \E call \in BagToSet(calls), rawData \in Batches(TwiceRawTokens) :
          FetchResolved(call, rawData)
    \/ \E call \in BagToSet(calls) : FetchRejected(call)
    \/ resetAlertState
    \/ ReturnKept

SpecTwice == Init /\ [][NextTwice]_vars

(***************************************************************************)
(* Scenario A of the specification: the batch ETH / STRK / USDC, with each *)
(* record verified or not, served next to one-record batches that give     *)
(* the detector a history.  One unit of volume stands for 250_000, and the *)
(* change of 6 for the scenario's 6.2: both lie in the band [5, 10].       *)
(***************************************************************************)
TagSets == {{}, {"AVNU"}}

ScenarioABatches ==
    {<<[symbol |-> "ETH", address |-> "0x1", usd |-> 3000, usdVolume24h |-> 4,
        usdPriceChangePercentage24h |-> 6, tags |-> t1],
       [symbol |-> "STRK", address |-> "0x2", usd |-> 1, usdVolume24h |-> 2,
        usdPriceChangePercentage24h |-> -3, tags |-> t2],
       [symbol |-> "USDC", address |-> "0x3", usd |-> 1, usdVolume24h |-> 0,
        usdPriceChangePercentage24h |-> 0, tags |-> t3]>> :
        t1 \in TagSets, t2 \in TagSets, t3 \in TagSets}

ScenarioAHistory ==
    {<<r>> : r \in RawFull({"ETH"}, {"0x1"}, {3000}, {1, 4}, {0}, TagSets)}

ScenarioAConfigs == {<< >>, [priceChangeThreshold |-> 5, watchlist |-> << >>]}

NextScenarioA ==
    \/ \E config \in ScenarioAConfigs : CheckAlertsCall(config)
    \/ \E call \in BagToSet(calls), rawData \in ScenarioABatches \cup ScenarioAHistory :
          FetchResolved(call, rawData)
    \/ \E call \in BagToSet(calls) : FetchRejected(call)
    \/ resetAlertState
    \/ Return

SpecScenarioA == Init /\ [][NextScenarioA]_vars

(***************************************************************************)
(* markets.ts getMarketSnapshot.  The lists of a snapshot hold references  *)
(* to the objects of allTokens: a list is a sequence of positions in       *)
(* allTokens.  Array.prototype.sort is stable: an element goes behind the  *)
(* elements the comparator does not put after it.  The comparators         *)
(* subtract two numbers, so sorting by them is sorting by a key, ascending.*)
(* timestamp and network are left out.                                     *)
(***************************************************************************)
\* mutant: an element goes before the elements it ties with
InsertInto_BeforeTies(sorted, x, key) ==
    LET p == Cardinality({j \in DOMAIN sorted : key[sorted[j]] < key[x]}) IN
    SubSeq(sorted, 1, p) \o <<x>> \o SubSeq(sorted, p + 1, Len(sorted))

InsertInto(sorted, x, key) ==
    LET p == Cardinality({j \in DOMAIN sorted : key[sorted[j]] <= key[x]}) IN
    SubSeq(sorted, 1, p) \o <<x>> \o SubSeq(sorted, p + 1, Len(sorted))

RECURSIVE SortPrefix(_, _, _)
SortPrefix(s, n, key) ==
    IF n = 0 THEN << >> ELSE InsertInto(SortPrefix(s, n - 1, key), s[n], key)

StableSort(s, key) == SortPrefix(s, Len(s), key)

\* Array.prototype.slice(0, n)
Slice(s, n) == SubSeq(s, 1, IF n < Len(s) THEN n ELSE Len(s))

Indices(allTokens) == [i \in 1..Len(allTokens) |-> i]

ActiveTokens(allTokens) ==
    LET HasVolume(i) == allTokens[i].volume24h > 0 IN
    SelectSeq(Indices(allTokens), HasVolume)

ByVolume(allTokens) ==
    StableSort(ActiveTokens(allTokens), [i \in DOMAIN allTokens |-> - allTokens[i].volume24h])

\* mutant: a change of zero counted as a gain
ByGain_ZeroIncluded(allTokens) ==
    LET Gains(i) == allTokens[i].priceChange24h >= 0 IN
    StableSort(SelectSeq(ActiveTokens(allTokens), Gains),
               [i \in DOMAIN allTokens |-> - allTokens[i].priceChange24h])

ByGain(allTokens) ==
    LET Gains(i) == allTokens[i].priceChange24h > 0 IN
    StableSort(SelectSeq(ActiveTokens(allTokens), Gains),
               [i \in DOMAIN allTokens |-> - allTokens[i].priceChange24h])

ByLoss(allTokens) ==
    LET Loses(i) == allTokens[i].priceChange24h < 0 IN
    StableSort(SelectSeq(ActiveTokens(allTokens), Loses),
               [i \in DOMAIN allTokens |-> allTokens[i].priceChange24h])

WatchlistTokens(allTokens, config) ==
    LET Watched(i) == ToUpperCase(allTokens[i].symbol) \in Range(config.watchlist) IN
    SelectSeq(Indices(allTokens), Watched)

RECURSIVE SumVolume(_, _, _)
\* reduce((sum, t) => sum + t.volume24h, 0) over the first n of idxs
SumVolume(allTokens, idxs, n) ==
    IF n = 0 THEN 0 ELSE SumVolume(allTokens, idxs, n - 1) + allTokens[idxs[n]].volume24h

\* mutant: the total taken over the tokens that topByVolume shows
TotalVolume_OfTop(allTokens) ==
    LET top == Slice(ByVolume(allTokens), 20) IN SumVolume(allTokens, top, Len(top))

TotalVolume(allTokens) ==
    LET activeTokens == ActiveTokens(allTokens) IN
    SumVolume(allTokens, activeTokens, Len(activeTokens))

\* utils/config.ts defaultConfig: WATCHLIST of the environment, split at the
\* commas and trimmed, or the default watchlist when it is not set
ConfigOf(env) ==
    [getConfig EXCEPT !.watchlist = IF "WATCHLIST" \in DOMAIN env THEN env.WATCHLIST ELSE @]

\* the snapshot, with the batch and the watchlist it was computed from
MarketSnapshot(config, allTokens) ==
    [allTokens |-> allTokens,
     configured |-> config.watchlist,
     tokenCount |-> Len(allTokens),
     totalVolume24h |-> TotalVolume(allTokens),
     topByVolume |-> Slice(ByVolume(allTokens), 20),
     topGainers |-> Slice(ByGain(allTokens), 10),
     topLosers |-> Slice(ByLoss(allTokens), 10),
     watchlist |-> WatchlistTokens(allTokens, config)]

(***************************************************************************)
(* A getMarketSnapshot call is one step: it shares no state with anything  *)
(* that could run while it awaits the fetch.  Its result, a snapshot or    *)
(* the rejection of the fetch, is kept for the one state in which the call *)
(* ends; SnapshotReturn hands it to the caller.                            *)
(***************************************************************************)
\* mutant: the aggregator writing the volumes it saw into the detector state
getMarketSnapshot_Records(env, rawData) ==
    /\ Idle
    /\ snapshot = {}
    /\ snapshot' = {MarketSnapshot(ConfigOf(env), fetchMarketData(rawData))}
    /\ state' = [state EXCEPT !.lastVolumes =
                    CheckLoop(state, fetchMarketData(rawData), Len(rawData),
                              ResolveConfig([watchlist |-> << >>])).state.lastVolumes]
    /\ UNCHANGED <<now, calls, outcome, alertConfig, tokens, alerts, pre, lastSeen,
                   everVerified, lastCall, schedVars, reportVars>>

getMarketSnapshot(env, rawData) ==
    /\ Idle
    /\ snapshot = {}
    /\ snapshot' = {MarketSnapshot(ConfigOf(env), fetchMarketData(rawData))}
    /\ UNCHANGED <<state, now, calls, outcome, alertConfig, tokens, alerts, pre, lastSeen,
                   everVerified, lastCall, schedVars, reportVars>>

\* fetchMarketData rejects: getMarketSnapshot throws
getMarketSnapshotRejected ==
    /\ Idle
    /\ snapshot = {}
    /\ snapshot' = {[thrown |-> TRUE]}
    /\ UNCHANGED <<state, now, calls, outcome, alertConfig, tokens, alerts, pre, lastSeen,
                   everVerified, lastCall, schedVars, reportVars>>

SnapshotReturn ==
    /\ snapshot # {}
    /\ snapshot' = {}
    /\ UNCHANGED <<state, now, calls, outcome, alertConfig, tokens, alerts, pre, lastSeen,
                   everVerified, lastCall, schedVars, reportVars>>

(***************************************************************************)
(* What the upstream serves to getMarketSnapshot: a short batch, or a      *)
(* short batch repeated, which makes lists longer than 10 and 20 entries.  *)
(***************************************************************************)
RECURSIVE Repeat(_, _)
Repeat(batch, k) == IF k = 0 THEN << >> ELSE Repeat(batch, k - 1) \o batch

SnapshotRawTokens ==
    RawFull({"eth"}, {"0x1"}, {3}, {4}, {6}, {{"AVNU"}})
        \cup RawFull({"ETH"}, {"0x1"}, {3}, {1}, {9}, {{"AVNU"}})
        \cup RawFull({"DOGE"}, {"0x2"}, {7}, {1, 4}, {-6}, {{}})
        \cup RawFull({"DOGE"}, {"0x2"}, {7}, {1}, {-9, 0}, {{}})
        \cup RawFull({"DOGE"}, {"0x2"}, {7}, {0}, {6}, {{}})
        \cup RawBare({"STRK"}, {"0x2"})

SnapshotBatches ==
    {Repeat(batch, k) : batch \in Batches(SnapshotRawTokens), k \in 1..MaxRepeat}

\* WATCHLIST not set, WATCHLIST=DOGE and WATCHLIST=eth
Environments == {<< >>, [WATCHLIST |-> <<"DOGE">>], [WATCHLIST |-> <<"eth">>]}

NextSnapshot ==
    \/ \E env \in Environments, rawData \in SnapshotBatches : getMarketSnapshot(env, rawData)
    \/ getMarketSnapshotRejected
    \/ SnapshotReturn

SpecSnapshot == Init /\ [][NextSnapshot]_vars

(***************************************************************************)
(* scheduler.ts.  A job's task is named by what it awaits: "alerts" is     *)
(* checkAlerts(), "snapshot" and "daily" are generateReport + saveReport   *)
(* (reports/generator.ts), "custom" is a task of a caller's own job.       *)
(***************************************************************************)
ValidCron == {"0 */6 * * *", "0 7 * * *", "*/15 * * * *"}

getDefaultJobs ==
    << [name |-> "market-snapshot", schedule |-> "0 */6 * * *", enabled |-> TRUE,
        task |-> "snapshot"],
       [name |-> "daily-report", schedule |-> "0 7 * * *", enabled |-> TRUE,
        task |-> "daily"],
       [name |-> "alert-check", schedule |-> "*/15 * * * *", enabled |-> TRUE,
        task |-> "alerts"] >>

\* ScheduledTask.stop()
StopTask(tasks, id) == [tasks EXCEPT ![id].live = FALSE]

\* mutant: a job scheduled again without stopping the task it replaces
ScheduleJobOn_KeepsOld(sched, job) ==
    IF job.schedule \notin ValidCron
    THEN [scheduledTasks |-> sched.scheduledTasks,
          cronTasks |-> sched.cronTasks,
          thrown |-> "Invalid cron expression"]
    ELSE [scheduledTasks |-> MapSet(sched.scheduledTasks, job.name, Len(sched.cronTasks) + 1),
          cronTasks |-> Append(sched.cronTasks,
                               [name |-> job.name, task |-> job.task, live |-> job.enabled]),
          thrown |-> ""]

\* scheduleJob on the registry sched = [scheduledTasks, cronTasks, thrown]
ScheduleJobOn(sched, job) ==
    LET stopped == IF MapHas(sched.scheduledTasks, job.name)
                   THEN StopTask(sched.cronTasks, sched.scheduledTasks[job.name])
                   ELSE sched.cronTasks
    IN IF job.schedule \notin ValidCron
       THEN [scheduledTasks |-> sched.scheduledTasks,
             cronTasks |-> stopped,
             thrown |-> "Invalid cron expression"]
       ELSE [scheduledTasks |-> MapSet(sched.scheduledTasks, job.name, Len(stopped) + 1),
             cronTasks |-> Append(stopped,
                                  [name |-> job.name, task |-> job.task, live |-> job.enabled]),
             thrown |-> ""]

Registry == [scheduledTasks |-> scheduledTasks, cronTasks |-> cronTasks, thrown |-> ""]

scheduleJob(job) ==
    /\ Idle
    /\ Len(cronTasks) < MaxTasks
    /\ LET r == ScheduleJobOn(Registry, job)
       IN /\ scheduledTasks' = r.scheduledTasks
          /\ cronTasks' = r.cronTasks
          /\ apiError' = r.thrown
    /\ UNCHANGED <<state, now, calls, outcome, alertConfig, tokens, alerts, pre, lastSeen,
                   everVerified, lastCall, snapshot, jobStatus, jobRuns, reportVars>>

RECURSIVE ScheduleAll(_, _, _)
\* `for (const job of jobs) scheduleJob(job)`, up to the first throw
ScheduleAll(sched, jobs, n) ==
    IF n = 0 THEN sched
    ELSE LET before == ScheduleAll(sched, jobs, n - 1)
         IN IF before.thrown # "" THEN before ELSE ScheduleJobOn(before, jobs[n])

startScheduler ==
    /\ Idle
    /\ Len(cronTasks) + Len(getDefaultJobs) <= MaxTasks
    /\ LET r == ScheduleAll(Registry, getDefaultJobs, Len(getDefaultJobs))
       IN /\ scheduledTasks' = r.scheduledTasks
          /\ cronTasks' = r.cronTasks
          /\ apiError' = r.thrown
    /\ UNCHANGED <<state, now, calls, outcome, alertConfig, tokens, alerts, pre, lastSeen,
                   everVerified, lastCall, snapshot, jobStatus, jobRuns, reportVars>>

stopScheduler ==
    /\ Idle
    /\ cronTasks' = [id \in DOMAIN cronTasks |->
                        IF id \in Range(scheduledTasks)
                        THEN [cronTasks[id] EXCEPT !.live = FALSE]
                        ELSE cronTasks[id]]
    /\ scheduledTasks' = << >>
    /\ apiError' = ""
    /\ UNCHANGED <<state, now, calls, outcome, alertConfig, tokens, alerts, pre, lastSeen,
                   everVerified, lastCall, snapshot, jobStatus, jobRuns, reportVars>>

\* `await job.task()`: the task starts and suspends at its first await
StartTask(task, via) ==
    /\ InFlight < MaxInFlight
    /\ IF task = "alerts"
       THEN /\ calls' = calls (+) SetToBag({[config |-> ResolveConfig(<< >>), via |-> via]})
            /\ UNCHANGED jobRuns
       ELSE /\ jobRuns' = jobRuns (+) SetToBag({[task |-> task, via |-> via]})
            /\ UNCHANGED calls

\* node-cron fires the callback of a live task whenever its expression
\* matches; it does not look at earlier invocations of the callback
TimerFire(id) ==
    /\ Idle
    /\ id \in DOMAIN cronTasks
    /\ cronTasks[id].live
    /\ StartTask(cronTasks[id].task, [origin |-> "timer", job |-> cronTasks[id].name])
    /\ UNCHANGED <<state, now, outcome, alertConfig, tokens, alerts, pre, lastSeen,
                   everVerified, lastCall, snapshot, scheduledTasks, cronTasks, jobStatus, apiError,
                   reportVars>>

DefaultJobNamed(jobName) ==
    {i \in DOMAIN getDefaultJobs : getDefaultJobs[i].name = jobName}

runJobNow(jobName) ==
    /\ Idle
    /\ IF DefaultJobNamed(jobName) = {}
       THEN /\ apiError' = "Unknown job"
            /\ UNCHANGED <<calls, jobRuns>>
       ELSE /\ StartTask(getDefaultJobs[CHOOSE i \in DefaultJobNamed(jobName) : TRUE].task,
                         [origin |-> "manual", job |-> jobName])
            /\ apiError' = ""
    /\ UNCHANGED <<state, now, outcome, alertConfig, tokens, alerts, pre, lastSeen,
                   everVerified, lastCall, snapshot, scheduledTasks, cronTasks, jobStatus,
                   reportVars>>

\* a report or custom task settles: it resolves or it throws
JobRunSettled(run, failed) ==
    /\ Idle
    /\ BagIn(run, jobRuns)
    /\ jobRuns' = jobRuns (-) SetToBag({run})
    /\ Settle(run.via, failed)
    /\ UNCHANGED <<state, now, calls, outcome, alertConfig, tokens, alerts, pre, lastSeen,
                   everVerified, lastCall, snapshot, scheduledTasks, cronTasks, apiError,
                   reportVars>>

(***************************************************************************)
(* The scheduler driving the detector: a small upstream, the scheduler     *)
(* API, the timers and runJobNow.  The clock is not advanced here, so      *)
(* lastRun and lastCheck only show that they were written.                 *)
(***************************************************************************)
SchedRawTokens == RawFull({"ETH"}, {"0x1"}, {3}, {1}, {6}, {{"AVNU"}})

\* no claim about the scheduler reads the batch: one record per fetch
SchedBatches == {<<raw>> : raw \in SchedRawTokens}

CustomJobs ==
    { [name |-> "alert-check", schedule |-> "*/15 * * * *", enabled |-> TRUE, task |-> "custom"],
      [name |-> "alert-check", schedule |-> "every minute", enabled |-> TRUE, task |-> "custom"],
      [name |-> "backup", schedule |-> "0 7 * * *", enabled |-> FALSE, task |-> "custom"] }

RunNames == {"alert-check", "market-snapshot", "backup"}

NextSched ==
    \/ startScheduler
    \/ stopScheduler
    \/ \E job \in CustomJobs : scheduleJob(job)
    \/ \E id \in DOMAIN cronTasks : TimerFire(id)
    \/ \E jobName \in RunNames : runJobNow(jobName)
    \/ \E run \in BagToSet(jobRuns), failed \in BOOLEAN : JobRunSettled(run, failed)
    \/ \E call \in BagToSet(calls), rawData \in SchedBatches : FetchResolved(call, rawData)
    \/ \E call \in BagToSet(calls) : FetchRejected(call)
    \/ Return

SpecSched == Init /\ [][NextSched]_vars

(***************************************************************************)
(* Vocabulary of the properties: the state in which a checkAlerts returns. *)
(***************************************************************************)
Returned == outcome = "returned"

Thrown == outcome = "thrown"

ConsideredNow == ConsideredIdx(tokens, alertConfig)

\* the alerts of type `type` raised for the record at position i
AlertsOf(i, type) == {k \in DOMAIN alerts : alerts[k].rec = i /\ alerts[k].type = type}

\* the considered records before position i that carry the address of record i
EarlierSame(i) == {j \in ConsideredNow : j < i /\ tokens[j].address = tokens[i].address}

SetMax(S) == CHOOSE x \in S : \A y \in S : y <= x

DistinctAddresses ==
    \A i \in ConsideredNow, j \in ConsideredNow : tokens[i].address = tokens[j].address => i = j

\* C1: a call never emits volume_spike for a record whose address has no
\* previously recorded volume: none in the detector state the call found and
\* none written for an earlier record of the batch.
C1_NoSpikeWithoutHistory ==
    Returned =>
        \A i \in DOMAIN tokens :
            (~ MapHas(pre.lastVolumes, tokens[i].address) /\ EarlierSame(i) = {})
                => AlertsOf(i, "volume_spike") = {}

\* a first-seen record with the largest volume stays silent while another
\* record of the same call spikes
C1_Witness ==
    /\ Returned
    /\ \E i \in ConsideredNow, j \in ConsideredNow :
          /\ ~ MapHas(pre.lastVolumes, tokens[i].address)
          /\ EarlierSame(i) = {}
          /\ tokens[i].volume24h = 4
          /\ AlertsOf(i, "volume_spike") = {}
          /\ AlertsOf(j, "volume_spike") # {}

NewTokenFor(a) ==
    Returned /\ \E i \in DOMAIN tokens : tokens[i].address = a /\ AlertsOf(i, "new_token") # {}

\* C2: new_token is emitted only for a verified record whose address was not
\* in knownTokens (nor processed earlier in the batch); an unverified record
\* never triggers it; an address already processed since the last reset
\* never gets new_token from a later call.
C2_NewTokenGating ==
    /\ [](Returned =>
            \A i \in DOMAIN tokens :
                AlertsOf(i, "new_token") # {} =>
                    /\ tokens[i].verified
                    /\ tokens[i].address \notin pre.knownTokens
                    /\ EarlierSame(i) = {})
    /\ [][\A a \in Addresses : MapHas(lastSeen, a) => ~ NewTokenFor(a)']_vars

\* a verified record of a known address stays silent, a first-seen unverified
\* record stays silent, and a first-seen verified record is announced
C2_Witness ==
    /\ Returned
    /\ \E i \in ConsideredNow :
          tokens[i].verified /\ tokens[i].address \in pre.knownTokens
              /\ AlertsOf(i, "new_token") = {}
    /\ \E j \in ConsideredNow : AlertsOf(j, "new_token") # {}

(***************************************************************************)
(* The detector state record i of the batch is compared against, told      *)
(* from the batch: the state the call found, overwritten by the latest     *)
(* earlier considered record of each address.                              *)
(***************************************************************************)
EarlierOf(a, i) == {j \in ConsideredNow : j < i /\ tokens[j].address = a}

EarlierAddresses(i) == {tokens[j].address : j \in {k \in ConsideredNow : k < i}}

StateBefore(i) ==
    [lastPrices |->
        [a \in DOMAIN pre.lastPrices \cup EarlierAddresses(i) |->
            IF EarlierOf(a, i) # {} THEN tokens[SetMax(EarlierOf(a, i))].priceUsd
            ELSE pre.lastPrices[a]],
     lastVolumes |->
        [a \in DOMAIN pre.lastVolumes \cup EarlierAddresses(i) |->
            IF EarlierOf(a, i) # {} THEN tokens[SetMax(EarlierOf(a, i))].volume24h
            ELSE pre.lastVolumes[a]],
     lastCheck |-> pre.lastCheck,
     knownTokens |-> pre.knownTokens \cup EarlierAddresses(i)]

AlertsAgainst(st, i) ==
    IF i \in ConsideredNow
    THEN PriceAlerts(tokens[i], i, alertConfig)
            \o VolumeAlerts(st, tokens[i], i, alertConfig)
            \o NewTokenAlerts(st, tokens[i], i)
    ELSE << >>

RECURSIVE AlertsFromPre(_)
AlertsFromPre(n) == IF n = 0 THEN << >> ELSE AlertsFromPre(n - 1) \o AlertsAgainst(pre, n)

RECURSIVE AlertsFromBefore(_)
AlertsFromBefore(n) ==
    IF n = 0 THEN << >> ELSE AlertsFromBefore(n - 1) \o AlertsAgainst(StateBefore(n), n)

\* C4 (as claimed): every comparison of a call uses the values the state had
\* before the call.
C4_AllComparedAgainstPre == Returned => alerts = AlertsFromPre(Len(tokens))

\* C4 (amended): a record is compared against the state the call found,
\* overwritten by the earlier considered records of the same batch; when the
\* considered records have pairwise distinct addresses that is the state
\* the call found.
C4_ComparedAgainstStateBefore ==
    Returned =>
        /\ alerts = AlertsFromBefore(Len(tokens))
        /\ DistinctAddresses => alerts = AlertsFromPre(Len(tokens))

\* a batch of two records of distinct, already known addresses, one of
\* which spikes against its volume of the previous call
C4_Witness ==
    /\ Returned
    /\ Len(tokens) = 2
    /\ ConsideredNow = {1, 2}
    /\ DistinctAddresses
    /\ \A i \in {1, 2} : tokens[i].address \in pre.knownTokens
    /\ \E i \in {1, 2} : AlertsOf(i, "volume_spike") # {}

\* C5: a rejected fetch surfaces to the caller with no alert and leaves
\* lastPrices, lastVolumes, knownTokens and lastCheck as they were.
C5_FailedFetchChangesNothing ==
    Thrown => (alerts = << >> /\ state = pre)

\* a fetch rejected after the detector has recorded tokens and the clock
\* has moved past lastCheck
C5_Witness ==
    /\ Thrown
    /\ state.knownTokens # {}
    /\ now > state.lastCheck

\* C6: the state is keyed by address: each address holds the price and the
\* volume of the last token processed for it, whatever other addresses
\* with the same symbol have shown, and no key is a symbol.
C6_KeyedByAddress ==
    /\ DOMAIN state.lastPrices \subseteq Addresses
    /\ DOMAIN state.lastVolumes \subseteq Addresses
    /\ state.knownTokens \subseteq Addresses
    /\ \A a \in Addresses :
          IF ~ MapHas(lastSeen, a)
          THEN /\ ~ MapHas(state.lastPrices, a)
               /\ ~ MapHas(state.lastVolumes, a)
               /\ a \notin state.knownTokens
          ELSE /\ MapHas(state.lastPrices, a) /\ state.lastPrices[a] = lastSeen[a].priceUsd
               /\ MapHas(state.lastVolumes, a) /\ state.lastVolumes[a] = lastSeen[a].volume24h
               /\ a \in state.knownTokens

\* two addresses last seen under one symbol hold different volumes
C6_Witness ==
    /\ DOMAIN lastSeen = {"0x1", "0x2"}
    /\ lastSeen["0x1"].symbol = lastSeen["0x2"].symbol
    /\ state.lastVolumes["0x1"] # state.lastVolumes["0x2"]

Recorded(i) ==
    LET a == tokens[i].address IN
    /\ MapHas(state.lastPrices, a) /\ state.lastPrices[a] = tokens[i].priceUsd
    /\ MapHas(state.lastVolumes, a) /\ state.lastVolumes[a] = tokens[i].volume24h
    /\ a \in state.knownTokens

LaterSame(i) == {j \in ConsideredNow : j > i /\ tokens[j].address = tokens[i].address}

\* C7 (as claimed): after the call the state holds the price and volume of
\* every considered record.
C7_EveryConsideredRecorded == Returned => \A i \in ConsideredNow : Recorded(i)

\* C7 (amended): after the call the state holds the price and volume of the
\* last considered record of each address, and the address of every
\* considered record is known, whether or not an alert fired.
C7_LastConsideredRecorded ==
    Returned =>
        \A i \in ConsideredNow :
            /\ tokens[i].address \in state.knownTokens
            /\ MapHas(state.lastPrices, tokens[i].address)
            /\ MapHas(state.lastVolumes, tokens[i].address)
            /\ LaterSame(i) = {} => Recorded(i)

\* a considered record that raised no alert, with a price and a volume the
\* state did not hold before
C7_Witness ==
    /\ Returned
    /\ \E i \in ConsideredNow :
          /\ \A k \in DOMAIN alerts : alerts[k].rec # i
          /\ MapHas(pre.lastVolumes, tokens[i].address)
          /\ pre.lastVolumes[tokens[i].address] # tokens[i].volume24h
          /\ pre.lastPrices[tokens[i].address] # tokens[i].priceUsd
          /\ Recorded(i)

\* C8 (as claimed): every known address was processed as verified.
C8_KnownWereVerified == state.knownTokens \subseteq everVerified

\* C8 (amended): the known addresses are the addresses processed since the
\* last reset, verified or not.
C8_KnownAreProcessed ==
    state.knownTokens = {a \in Addresses : MapHas(lastSeen, a)}

\* a known address that was never processed as verified
C8_Witness == \E a \in state.knownTokens : a \notin everVerified

IsPriceAlert(alert) == alert.type \in {"price_surge", "price_drop"}

PriceAlertsFor(i) == AlertsOf(i, "price_surge") \cup AlertsOf(i, "price_drop")

\* C9: a considered record gets a price alert iff abs(priceChange24h) >=
\* priceChangeThreshold; the alert's value is that change and its severity is
\* high iff abs(value) > 20, medium iff 10 < abs(value) <= 20, low iff
\* threshold <= abs(value) <= 10.
C9_PriceAlertSeverity ==
    Returned =>
        /\ \A i \in ConsideredNow :
              PriceAlertsFor(i) # {}
                  <=> Abs(tokens[i].priceChange24h) >= alertConfig.priceChangeThreshold
        /\ \A k \in DOMAIN alerts :
              IsPriceAlert(alerts[k]) =>
                  LET v == Abs(alerts[k].value) IN
                  /\ alerts[k].value = tokens[alerts[k].rec].priceChange24h
                  /\ alerts[k].severity = "high" <=> v > 20
                  /\ alerts[k].severity = "medium" <=> (10 < v /\ v <= 20)
                  /\ alerts[k].severity = "low" <=>
                        (alertConfig.priceChangeThreshold <= v /\ v <= 10)

\* a change of exactly 20 rated medium next to a record below the threshold
\* that raised nothing
C9_Witness ==
    /\ Returned
    /\ \E k \in DOMAIN alerts :
          IsPriceAlert(alerts[k]) /\ Abs(alerts[k].value) = 20 /\ alerts[k].severity = "medium"
    /\ \E i \in ConsideredNow :
          /\ Abs(tokens[i].priceChange24h) < alertConfig.priceChangeThreshold
          /\ PriceAlertsFor(i) = {}

\* C10: every price_surge alert has a strictly positive value and every
\* price_drop alert a strictly negative one, whatever the threshold.
C10_PriceAlertSignTyped ==
    Returned =>
        \A k \in DOMAIN alerts :
            /\ alerts[k].type = "price_surge" => alerts[k].value > 0
            /\ alerts[k].type = "price_drop" => alerts[k].value < 0

\* C3: at most one checkAlerts is in flight: a timer fire of the alert-check
\* job or a runJobNow never starts checkAlerts while an earlier one still
\* awaits its fetch.
C3_OneDetectionInFlight == BagCardinality(calls) <= 1

\* the last volume record i of the batch is compared against, if there is one
HasPrev(i) == MapHas(StateBefore(i).lastVolumes, tokens[i].address)

Prev(i) == StateBefore(i).lastVolumes[tokens[i].address]

SpikesOf(i) == AlertsOf(i, "volume_spike")

\* C11: a considered record gets a volume_spike iff a volume prev is
\* recorded for its address when the record is processed, prev > 0 and
\* (volume24h - prev) / prev * 100 >= volumeSpikeThreshold; the alert's
\* value is that percentage and its severity is high if value > 500, medium
\* if value > 300, else low.  Scenario B: prev 1, volume 4 (in millions) and
\* threshold 200 give exactly one volume_spike, of value 300 and severity
\* low; a recorded volume of 0 never yields a spike.
C11_VolumeSpike ==
    /\ SpikeValuesExact
    /\ Returned =>
          \A i \in ConsideredNow :
              /\ SpikesOf(i) # {}
                    <=> /\ HasPrev(i)
                        /\ Prev(i) > 0
                        /\ (tokens[i].volume24h - Prev(i)) * 100
                              >= alertConfig.volumeSpikeThreshold * Prev(i)
              /\ Cardinality(SpikesOf(i)) <= 1
              /\ \A k \in SpikesOf(i) :
                    /\ alerts[k].value * Prev(i) = (tokens[i].volume24h - Prev(i)) * 100
                    /\ alerts[k].threshold = alertConfig.volumeSpikeThreshold
                    /\ alerts[k].severity =
                          IF alerts[k].value > 500 THEN "high"
                          ELSE IF alerts[k].value > 300 THEN "medium" ELSE "low"
              /\ (HasPrev(i) /\ Prev(i) = 1 /\ tokens[i].volume24h = 4
                      /\ alertConfig.volumeSpikeThreshold = 200)
                    => \E k \in SpikesOf(i) :
                          alerts[k].value = 300 /\ alerts[k].severity = "low"
              /\ (HasPrev(i) /\ Prev(i) = 0) => SpikesOf(i) = {}

\* Scenario B next to a record that grew from a recorded volume of 0 and
\* stayed silent
C11_Witness ==
    /\ Returned
    /\ alertConfig.volumeSpikeThreshold = 200
    /\ \E i \in ConsideredNow :
          /\ MapHas(pre.lastVolumes, tokens[i].address)
          /\ pre.lastVolumes[tokens[i].address] = 1
          /\ tokens[i].volume24h = 4
          /\ \E k \in SpikesOf(i) : alerts[k].value = 300 /\ alerts[k].severity = "low"
    /\ \E j \in ConsideredNow :
          /\ HasPrev(j) /\ Prev(j) = 0
          /\ tokens[j].volume24h = 4
          /\ SpikesOf(j) = {}

\* record i of the batch is outside a non-empty effective watchlist
Excluded(i) ==
    /\ Len(alertConfig.watchlist) > 0
    /\ ToUpperCase(tokens[i].symbol) \notin Range(alertConfig.watchlist)

\* what a detector state holds for address a: nothing, or price, volume, known
EntryOf(st, a) ==
    <<IF MapHas(st.lastPrices, a) THEN {st.lastPrices[a]} ELSE {},
      IF MapHas(st.lastVolumes, a) THEN {st.lastVolumes[a]} ELSE {},
      a \in st.knownTokens>>

\* the records of the batch with the address of record i that are not excluded
Admitted(i) == {j \in DOMAIN tokens : ~ Excluded(j) /\ tokens[j].address = tokens[i].address}

\* C12: with a non-empty effective watchlist a record whose uppercased
\* symbol is not in the list produces no alert of any type and writes
\* nothing for its address; every other record, and every record when the
\* watchlist is empty, is considered: its address is known afterwards and
\* holds the price and volume of the last such record.
C12_WatchlistFilter ==
    Returned =>
        \A i \in DOMAIN tokens :
            IF Excluded(i)
            THEN /\ \A k \in DOMAIN alerts : alerts[k].rec # i
                 /\ Admitted(i) = {} =>
                        EntryOf(state, tokens[i].address) = EntryOf(pre, tokens[i].address)
            ELSE /\ PriceAlertsFor(i) # {}
                 /\ EntryOf(state, tokens[i].address) =
                        LET last == tokens[SetMax(Admitted(i))] IN
                        <<{last.priceUsd}, {last.volume24h}, TRUE>>

\* under the default watchlist a DOGE record leaves the address it shares
\* with an earlier "eth" record as it was, while a lowercase "eth" record
\* of another call is processed
C12_Witness ==
    /\ Returned
    /\ Len(alertConfig.watchlist) > 0
    /\ \E i \in DOMAIN tokens :
          /\ Excluded(i)
          /\ Admitted(i) = {}
          /\ MapHas(pre.lastVolumes, tokens[i].address)
          /\ pre.lastVolumes[tokens[i].address] # tokens[i].volume24h
          /\ lastSeen[tokens[i].address].symbol = "eth"
          /\ state.lastVolumes[tokens[i].address] = pre.lastVolumes[tokens[i].address]

\* the call that returns repeats the batch and the configuration of the
\* call that returned before it, and finds what that call recorded: there
\* was no reset in between
Twice ==
    /\ Returned
    /\ lastCall = {[tokens |-> tokens, config |-> alertConfig]}
    /\ \A i \in ConsideredNow : tokens[i].address \in pre.knownTokens

\* C13 (as claimed): the second of two calls in a row with an identical
\* batch and configuration emits no new_token and, for a positive spike
\* threshold, no volume_spike.
C13_SecondCallSilent ==
    Twice =>
        \A k \in DOMAIN alerts :
            /\ alerts[k].type # "new_token"
            /\ alertConfig.volumeSpikeThreshold > 0 => alerts[k].type # "volume_spike"

\* the other considered records of the batch that carry the address of record i
OthersSame(i) == {j \in ConsideredNow : j # i /\ tokens[j].address = tokens[i].address}

\* C13 (amended): the second call emits no new_token, and for a positive
\* spike threshold no volume_spike for a record whose address no other
\* considered record of the batch carries: none at all when the considered
\* addresses are pairwise distinct.  The records of a repeated address are
\* compared against each other, in the second call as in the first.
C13_SecondCallDeltas ==
    Twice =>
        /\ \A k \in DOMAIN alerts : alerts[k].type # "new_token"
        /\ alertConfig.volumeSpikeThreshold > 0 =>
              /\ \A i \in ConsideredNow : OthersSame(i) = {} => SpikesOf(i) = {}
              /\ DistinctAddresses => \A k \in DOMAIN alerts : alerts[k].type # "volume_spike"

\* a second call on a batch of two verified records of distinct addresses
\* with volume: the first call announced both, the second stays silent on
\* new tokens and spikes
C13_Witness ==
    /\ Twice
    /\ alertConfig.volumeSpikeThreshold > 0
    /\ Len(tokens) = 2
    /\ DistinctAddresses
    /\ \A i \in DOMAIN tokens : tokens[i].verified /\ tokens[i].volume24h = 4
    /\ \A k \in DOMAIN alerts : IsPriceAlert(alerts[k])

\* the call that returns was served the batch of Scenario A with a price
\* threshold of 5
IsScenarioA ==
    /\ Returned
    /\ alertConfig.priceChangeThreshold = 5
    /\ Len(tokens) = 3
    /\ [i \in 1..3 |-> <<tokens[i].symbol, tokens[i].address, tokens[i].priceChange24h,
                          tokens[i].volume24h>>]
          = <<(<<"ETH", "0x1", 6, 4>>), (<<"STRK", "0x2", -3, 2>>), (<<"USDC", "0x3", 0, 0>>)>>

\* C14 (as claimed): Scenario A returns exactly one alert, a price_surge
\* for ETH of severity low.
C14_ScenarioAOneAlert ==
    IsScenarioA =>
        /\ Len(alerts) = 1
        /\ alerts[1].type = "price_surge"
        /\ alerts[1].symbol = "ETH"
        /\ alerts[1].severity = "low"

\* the records of the batch that are verified with an address the call did
\* not find known, and those whose volume spikes against the volume the
\* call found
FirstSeenVerified ==
    {i \in DOMAIN tokens : tokens[i].verified /\ tokens[i].address \notin pre.knownTokens}

SpikingOnPre ==
    {i \in DOMAIN tokens :
        /\ MapHas(pre.lastVolumes, tokens[i].address)
        /\ pre.lastVolumes[tokens[i].address] > 0
        /\ (tokens[i].volume24h - pre.lastVolumes[tokens[i].address]) * 100
              >= alertConfig.volumeSpikeThreshold * pre.lastVolumes[tokens[i].address]}

\* C14 (amended): Scenario A returns exactly one price alert, a price_surge
\* for ETH of severity low, first in the list; it is the only alert when no
\* record is verified with an address not yet known and no volume spikes
\* against the recorded one; each such record adds one alert.
C14_ScenarioAOnePriceAlert ==
    IsScenarioA =>
        /\ {k \in DOMAIN alerts : IsPriceAlert(alerts[k])} = {1}
        /\ alerts[1].type = "price_surge"
        /\ alerts[1].symbol = "ETH"
        /\ alerts[1].value = 6
        /\ alerts[1].severity = "low"
        /\ Len(alerts) = 1 + Cardinality(FirstSeenVerified) + Cardinality(SpikingOnPre)

\* Scenario A on a detector that knows none of the three addresses, with
\* no record verified: the price_surge alone
C14_Witness ==
    /\ IsScenarioA
    /\ pre.knownTokens = {}
    /\ Len(alerts) = 1

\* the place of an alert type within the alerts of one record
TypeRank(type) == IF type \in {"price_surge", "price_drop"} THEN 1
                  ELSE IF type = "volume_spike" THEN 2 ELSE 3

SeverityRank(severity) == IF severity = "high" THEN 3 ELSE IF severity = "medium" THEN 2 ELSE 1

\* C15: alerts come in record-iteration order: the alerts of an earlier
\* record precede those of a later one, and within a record the price alert
\* precedes the volume_spike, which precedes the new_token, each at most
\* once; nothing regroups them by type or sorts them by severity.
C15_AlertsInRecordOrder ==
    Returned =>
        \A k \in DOMAIN alerts, l \in DOMAIN alerts :
            k < l =>
                \/ alerts[k].rec < alerts[l].rec
                \/ /\ alerts[k].rec = alerts[l].rec
                   /\ TypeRank(alerts[k].type) < TypeRank(alerts[l].type)

\* a call whose alerts are neither grouped by type nor sorted by severity:
\* price alert and new_token of the first record, then price alert and
\* volume_spike of the second
C15_Witness ==
    /\ Returned
    /\ Len(alerts) = 4
    /\ [k \in 1..4 |-> <<alerts[k].rec, TypeRank(alerts[k].type)>>]
          = <<(<<1, 1>>), (<<1, 3>>), (<<2, 1>>), (<<2, 2>>)>>
    /\ SeverityRank(alerts[2].severity) > SeverityRank(alerts[1].severity)
    /\ SeverityRank(alerts[2].severity) > SeverityRank(alerts[3].severity)

Emptied(st) == st.lastPrices = << >> /\ st.lastVolumes = << >> /\ st.knownTokens = {}

\* what a first-ever call on the batch that was served returns
FirstEverAlerts == CheckLoop(EmptyState(0), tokens, Len(tokens), alertConfig).alerts

\* C16: resetAlertState leaves no last price, no last volume and no known
\* address, and a call that finds the state as a reset left it returns
\* exactly the alerts of a first-ever call on the same batch, whatever was
\* observed before the reset.
C16_ResetForgets ==
    /\ [][resetAlertState => Emptied(state')]_vars
    /\ [](Returned /\ Emptied(pre) => alerts = FirstEverAlerts)

\* a call that returns after a reset, where the call before the reset had
\* recorded the address of a verified record that is now announced again
C16_Witness ==
    /\ Returned
    /\ Emptied(pre)
    /\ \E c \in lastCall, i \in DOMAIN tokens :
          \E j \in ConsideredIdx(c.tokens, c.config) :
              /\ c.tokens[j].address = tokens[i].address
              /\ AlertsOf(i, "new_token") # {}

(***************************************************************************)
(* Vocabulary of the snapshot properties.                                  *)
(***************************************************************************)
RECURSIVE SumPositive(_, _)
\* the sum of volume24h over the records with volume24h > 0 among the first n
SumPositive(batch, n) ==
    IF n = 0 THEN 0
    ELSE SumPositive(batch, n - 1) + (IF batch[n].volume24h > 0 THEN batch[n].volume24h ELSE 0)

\* the snapshot that was just returned, if any
Snapshots == {s \in snapshot : "allTokens" \in DOMAIN s}

Active(s) == {i \in DOMAIN s.allTokens : s.allTokens[i].volume24h > 0}

\* C17: totalVolume24h is the sum of volume24h over the records with
\* volume24h > 0, and 0 for an empty batch and for a batch of zero volumes.
C17_TotalVolume ==
    \A s \in Snapshots :
        /\ s.totalVolume24h = SumPositive(s.allTokens, Len(s.allTokens))
        /\ Active(s) = {} => s.totalVolume24h = 0

\* a snapshot of more than 20 records with volume, all of them counted
C17_Witness ==
    \E s \in Snapshots :
        /\ Cardinality(Active(s)) > 20
        /\ s.totalVolume24h >= Cardinality(Active(s))

Change(s, i) == s.allTokens[i].priceChange24h

Gaining(s) == {i \in Active(s) : Change(s, i) > 0}

Losing(s) == {i \in Active(s) : Change(s, i) < 0}

\* list holds, without repetition, min(n, |eligible|) of the eligible records
TopOf(list, eligible, n) ==
    /\ Range(list) \subseteq eligible
    /\ Cardinality(Range(list)) = Len(list)
    /\ Len(list) = IF Cardinality(eligible) < n THEN Cardinality(eligible) ELSE n

\* C18: topGainers holds only records with volume24h > 0 and
\* priceChange24h > 0, by priceChange24h descending; topLosers only records
\* with volume24h > 0 and priceChange24h < 0, ascending; a record with a
\* change of 0 is in neither; each list has at most 10 entries, and no
\* eligible record left out is more extreme than one that is listed.
C18_GainersAndLosers ==
    \A s \in Snapshots :
        /\ TopOf(s.topGainers, Gaining(s), 10)
        /\ TopOf(s.topLosers, Losing(s), 10)
        /\ \A k \in DOMAIN s.topGainers, l \in DOMAIN s.topGainers :
              k < l => Change(s, s.topGainers[k]) >= Change(s, s.topGainers[l])
        /\ \A k \in DOMAIN s.topLosers, l \in DOMAIN s.topLosers :
              k < l => Change(s, s.topLosers[k]) <= Change(s, s.topLosers[l])
        /\ \A i \in Gaining(s) \ Range(s.topGainers), k \in DOMAIN s.topGainers :
              Change(s, i) <= Change(s, s.topGainers[k])
        /\ \A i \in Losing(s) \ Range(s.topLosers), k \in DOMAIN s.topLosers :
              Change(s, i) >= Change(s, s.topLosers[k])
        /\ \A i \in DOMAIN s.allTokens :
              Change(s, i) = 0 => i \notin Range(s.topGainers) \cup Range(s.topLosers)

\* more than 10 gaining records of two different changes: the list holds
\* 10 of the larger change and leaves the smaller ones out, although they
\* come first in the batch
C18_Witness ==
    \E s \in Snapshots :
        /\ Len(s.topGainers) = 10
        /\ \E i \in Gaining(s) \ Range(s.topGainers) :
              /\ Change(s, i) < Change(s, s.topGainers[10])
              /\ i < s.topGainers[1]

\* C19: the watchlist view holds exactly the records of the full batch
\* whose uppercased symbol equals the uppercased form of a configured
\* watchlist entry, zero-volume records included.
C19_WatchlistCaseInsensitive ==
    \A s \in Snapshots :
        Range(s.watchlist) =
            {i \in DOMAIN s.allTokens :
                ToUpperCase(s.allTokens[i].symbol)
                    \in {ToUpperCase(s.configured[e]) : e \in DOMAIN s.configured}}

Volume(s, i) == s.allTokens[i].volume24h

\* record i comes before record j by volume24h descending, ties in input order
VolumeBefore(s, i, j) ==
    \/ Volume(s, i) > Volume(s, j)
    \/ Volume(s, i) = Volume(s, j) /\ i < j

\* C20: topByVolume is the first 20 (all, if fewer) of the records with
\* volume24h > 0 ordered by volume24h descending, records of equal volume
\* in their input order; no zero-volume record is in it.
C20_TopByVolumeStable ==
    \A s \in Snapshots :
        /\ TopOf(s.topByVolume, Active(s), 20)
        /\ \A k \in DOMAIN s.topByVolume, l \in DOMAIN s.topByVolume :
              k < l => VolumeBefore(s, s.topByVolume[k], s.topByVolume[l])
        /\ \A i \in Active(s) \ Range(s.topByVolume), k \in DOMAIN s.topByVolume :
              VolumeBefore(s, s.topByVolume[k], i)
        /\ \A k \in DOMAIN s.topByVolume : Volume(s, s.topByVolume[k]) # 0

\* 20 listed records of two volumes next to zero-volume or surplus records:
\* the larger volume first, ties as served, a record with volume left out
C20_Witness ==
    \E s \in Snapshots :
        /\ Len(s.topByVolume) = 20
        /\ Volume(s, s.topByVolume[1]) > Volume(s, s.topByVolume[20])
        /\ Volume(s, s.topByVolume[1]) = Volume(s, s.topByVolume[2])
        /\ \E k \in DOMAIN s.topByVolume : s.topByVolume[k] < s.topByVolume[1]
        /\ Active(s) \ Range(s.topByVolume) # {}

(***************************************************************************)
(* The aggregator and the detector in one process: getMarketSnapshot and   *)
(* checkAlerts called in any order, a snapshot also while a checkAlerts    *)
(* awaits its fetch.  Each call fetches for itself (markets.ts:64,         *)
(* alerts.ts:103), so each gets a batch of its own, the empty one included.*)
(***************************************************************************)
BothRawTokens ==
    RawFull({"ETH"}, {"0x1"}, {3}, {1, 4}, {6}, {{"AVNU"}})
        \cup RawFull({"DOGE"}, {"0x2"}, {7}, {4}, {-6}, {{}})

NextBoth ==
    \/ \E config \in Configs : CheckAlertsCall(config)
    \/ \E call \in BagToSet(calls), rawData \in Batches(BothRawTokens) :
          FetchResolved(call, rawData)
    \/ \E call \in BagToSet(calls) : FetchRejected(call)
    \/ \E rawData \in Batches(BothRawTokens) : getMarketSnapshot(<< >>, rawData)
    \/ getMarketSnapshotRejected
    \/ SnapshotReturn
    \/ Return

SpecBoth == Init /\ [][NextBoth]_vars

\* the price, volume and known-address part of the detector state
Memory(st) ==
    [lastPrices |-> st.lastPrices, lastVolumes |-> st.lastVolumes, knownTokens |-> st.knownTokens]

EmptySnapshot(s) ==
    /\ s.tokenCount = 0
    /\ s.totalVolume24h = 0
    /\ s.topByVolume = << >>
    /\ s.topGainers = << >>
    /\ s.topLosers = << >>
    /\ s.watchlist = << >>

\* C21: empty input is never an error.  A getMarketSnapshot whose fetch
\* resolves to an empty batch returns a snapshot with tokenCount 0,
\* totalVolume24h 0 and four empty lists; a checkAlerts whose fetch resolves
\* to an empty batch returns (it does not throw) an empty alert list and
\* leaves lastPrices, lastVolumes and knownTokens as they were.
C21_EmptyInput ==
    /\ [][(\E call \in BagToSet(calls) : FetchResolved(call, << >>))
              => /\ outcome' = "returned"
                 /\ alerts' = << >>
                 /\ Memory(state') = Memory(state)]_vars
    /\ [][getMarketSnapshot(<< >>, << >>)
              => /\ snapshot' = Snapshots'
                 /\ \A s \in snapshot' : EmptySnapshot(s)]_vars
    /\ [](\A s \in Snapshots : s.allTokens = << >> => EmptySnapshot(s))

\* an empty snapshot is out, and a checkAlerts has returned from an empty
\* batch with a price, a volume and a known address still in the state
C21_Witness ==
    /\ \E s \in Snapshots : s.allTokens = << >>
    /\ Returned
    /\ tokens = << >>
    /\ alerts = << >>
    /\ state.knownTokens # {}
    /\ DOMAIN state.lastVolumes # {}
    /\ Memory(state) = Memory(pre)

\* what the detection calls alone have left behind: per address the last
\* considered token
MemoryOfCalls ==
    [lastPrices |-> [a \in DOMAIN lastSeen |-> lastSeen[a].priceUsd],
     lastVolumes |-> [a \in DOMAIN lastSeen |-> lastSeen[a].volume24h],
     knownTokens |-> DOMAIN lastSeen]

SnapshotStep == snapshot' # snapshot

\* C22: the aggregator and the detector do not write each other's data.  A
\* getMarketSnapshot step leaves the detector state and the pending
\* detection calls as they were; a detection step leaves a snapshot that is
\* out as it was and returns its records as they were fetched; so at every
\* moment the detector state is what the detection calls alone have
\* produced, and each call's alerts are those of the loop run on that state.
C22_ReadOnlyOfEachOther ==
    /\ [][SnapshotStep => state' = state /\ calls' = calls /\ lastSeen' = lastSeen]_vars
    /\ [][state' # state => snapshot' = snapshot]_vars
    /\ [](Returned => \A i \in DOMAIN tokens :
                          tokens[i] \in {NormalizeToken(t) : t \in BothRawTokens})
    /\ [](Memory(state) = MemoryOfCalls)
    /\ [](Returned => alerts = CheckLoop(pre, tokens, Len(tokens), alertConfig).alerts)

\* a snapshot of a batch that would have changed the recorded volume is out
\* while the detector, called before and after it, reports a spike against
\* the volume its own earlier call recorded
C22_Witness ==
    /\ Returned
    /\ \E s \in Snapshots :
          \E i \in DOMAIN s.allTokens :
              /\ MapHas(pre.lastVolumes, s.allTokens[i].address)
              /\ s.allTokens[i].volume24h # pre.lastVolumes[s.allTokens[i].address]
              /\ s.allTokens[i].volume24h > 0
    /\ \E k \in DOMAIN alerts : alerts[k].type = "volume_spike"

(***************************************************************************)
(* alerts.ts formatAlerts.  A line is the sequence of the pieces it is     *)
(* concatenated from, the result the sequence of the lines that            *)
(* lines.join('\n') joins; the emoji of the headings are left out.  An     *)
(* alert's message is modelled the same way.  Values are integers, so      *)
(* toFixed appends the zero decimals.                                      *)
(***************************************************************************)
Zeros(digits) == IF digits = 0 THEN "" ELSE IF digits = 2 THEN ".00" ELSE ".000000"

\* Number.prototype.toFixed on an integer
ToFixed(value, digits) == ToString(value) \o Zeros(digits)

\* the messages checkAlerts builds (alerts.ts:118, 134, 148)
MessageOf(alert, name) ==
    IF alert.type = "price_surge"
    THEN <<alert.symbol, " surged ", ToFixed(Abs(alert.value), 2), "% in 24h">>
    ELSE IF alert.type = "price_drop"
    THEN <<alert.symbol, " dropped ", ToFixed(Abs(alert.value), 2), "% in 24h">>
    ELSE IF alert.type = "volume_spike"
    THEN <<alert.symbol, " volume spiked ", ToFixed(alert.value, 0), "%">>
    ELSE <<"New verified token: ", alert.symbol, " (", name, ")">>

WithMessage(alert, message) ==
    [type |-> alert.type, symbol |-> alert.symbol, message |-> message, value |-> alert.value,
     threshold |-> alert.threshold, severity |-> alert.severity]

\* mutant: the newest alert of a type put first in its group
ByType_NewestFirst(alertList, type) ==
    LET IsType(a) == a.type = type
        group == SelectSeq(alertList, IsType)
    IN [k \in 1..Len(group) |-> group[Len(group) + 1 - k]]

\* byType[type], or the empty list where byType has no such key
ByType(alertList, type) ==
    LET IsType(a) == a.type = type IN SelectSeq(alertList, IsType)

EntryLine(a) ==
    IF a.type = "price_surge" THEN <<"- **", a.symbol, "**: +", ToFixed(a.value, 2), "%">>
    ELSE IF a.type = "price_drop" THEN <<"- **", a.symbol, "**: ", ToFixed(a.value, 2), "%">>
    ELSE IF a.type = "volume_spike"
    THEN <<"- **", a.symbol, "**: +", ToFixed(a.value, 0), "% volume">>
    ELSE <<"- ">> \o a.message

GroupLines(alertList, type, header) ==
    LET group == ByType(alertList, type) IN
    IF Len(group) > 0
    THEN << <<header>> >> \o [k \in 1..Len(group) |-> EntryLine(group[k])] \o << <<"">> >>
    ELSE << >>

FormatLines(alertList, at) ==
    IF Len(alertList) = 0
    THEN << <<"No active alerts.">> >>
    ELSE << <<"# Smaira Alerts">>, <<"">>, <<"Generated: ", ToString(at)>>, <<"">> >>
            \o GroupLines(alertList, "price_surge", "## Price Surges")
            \o GroupLines(alertList, "price_drop", "## Price Drops")
            \o GroupLines(alertList, "volume_spike", "## Volume Spikes")
            \o GroupLines(alertList, "new_token", "## New Tokens")

formatAlerts(alertList) ==
    /\ Idle
    /\ formatted = {}
    /\ formatted' = {[alerts |-> alertList, lines |-> FormatLines(alertList, now)]}
    /\ UNCHANGED <<state, now, calls, outcome, alertConfig, tokens, alerts, pre, lastSeen,
                   everVerified, lastCall, snapshot, schedVars, dca>>

FormatReturn ==
    /\ formatted # {}
    /\ formatted' = {}
    /\ UNCHANGED <<state, now, calls, outcome, alertConfig, tokens, alerts, pre, lastSeen,
                   everVerified, lastCall, snapshot, schedVars, dca>>

(***************************************************************************)
(* The alert lists handed to formatAlerts: alerts as checkAlerts builds    *)
(* them for an ETH and a DOGE token, and one new_token alert built by      *)
(* another caller of the exported function, with a message of its own.     *)
(***************************************************************************)
FormatTokens ==
    {NormalizeToken(t) : t \in RawFull({"ETH"}, {"0x1"}, {3}, {4}, {6}, {{"AVNU"}})
                               \cup RawFull({"DOGE"}, {"0x2"}, {7}, {4}, {-6}, {{"Community"}})}

DetectorAlerts ==
    LET cfg == ResolveConfig(<< >>)
        seen == [EmptyState(0) EXCEPT !.lastVolumes = ("0x1" :> 1) @@ ("0x2" :> 1)]
    IN UNION {Range(PriceAlerts(t, 1, cfg)) \cup Range(VolumeAlerts(seen, t, 1, cfg))
                 \cup Range(NewTokenAlerts(EmptyState(0), t, 1)) : t \in FormatTokens}

CallerAlerts ==
    {[type |-> "new_token", symbol |-> "ETH", message |-> <<"Listing announced">>, value |-> 0,
      threshold |-> 0, severity |-> "low"]}

FormatAlertRecords ==
    {WithMessage(a, MessageOf(a, "Token")) : a \in DetectorAlerts} \cup CallerAlerts

AlertLists == UNION {[1..n -> FormatAlertRecords] : n \in 0..MaxAlerts}

NextFormat ==
    \/ \E alertList \in AlertLists : formatAlerts(alertList)
    \/ FormatReturn

SpecFormat == Init /\ [][NextFormat]_vars

GroupTypes == <<"price_surge", "price_drop", "volume_spike", "new_token">>

Header(type) ==
    IF type = "price_surge" THEN <<"## Price Surges">>
    ELSE IF type = "price_drop" THEN <<"## Price Drops">>
    ELSE IF type = "volume_spike" THEN <<"## Volume Spikes">>
    ELSE <<"## New Tokens">>

InGroup(f, type) == {i \in DOMAIN f.alerts : f.alerts[i].type = type}

HeaderAt(f, type) == {k \in DOMAIN f.lines : f.lines[k] = Header(type)}

Shows(line, piece) == piece \in Range(line)

RECURSIVE LinesOfGroups(_, _)
\* the lines the first g groups take: a header, the entries and a blank line each
LinesOfGroups(f, g) ==
    IF g = 0 THEN 0
    ELSE LinesOfGroups(f, g - 1)
            + (IF InGroup(f, GroupTypes[g]) = {} THEN 0
               ELSE Cardinality(InGroup(f, GroupTypes[g])) + 2)

\* the line of alert i: the i-th of its type stands that many lines below the header
LineOf(f, i) ==
    LET type == f.alerts[i].type
        rank == Cardinality({j \in InGroup(f, type) : j <= i})
    IN f.lines[SetMax(HeaderAt(f, type)) + rank]

\* headers in the fixed order, one per group that has an alert, each group
\* closed by a blank line, nothing else below the four title lines
GroupsInFixedOrder(f) ==
    /\ Len(f.lines) = 4 + LinesOfGroups(f, 4)
    /\ f.lines[1] = <<"# Smaira Alerts">>
    /\ \A g \in 1..4 :
          IF InGroup(f, GroupTypes[g]) = {}
          THEN HeaderAt(f, GroupTypes[g]) = {}
          ELSE HeaderAt(f, GroupTypes[g]) = {4 + LinesOfGroups(f, g - 1) + 1}

NoAlertsLine(f) == f.lines = << <<"No active alerts.">> >>

\* C23 as stated: groups in the order price_surge, price_drop,
\* volume_spike, new_token, a header iff the group has an alert, alerts in
\* input order within a group, every entry showing its alert's symbol; the
\* single line "No active alerts." for the empty list.
C23_EveryEntryShowsSymbol ==
    \A f \in formatted :
        IF f.alerts = << >>
        THEN NoAlertsLine(f)
        ELSE /\ GroupsInFixedOrder(f)
             /\ \A i \in DOMAIN f.alerts : Shows(LineOf(f, i), f.alerts[i].symbol)

\* C23, amended: the same, but an entry of the price and volume groups
\* shows its alert's symbol and value, and an entry of the new-token group
\* is "- " followed by its alert's message.
C23_EntriesInInputOrder ==
    \A f \in formatted :
        IF f.alerts = << >>
        THEN NoAlertsLine(f)
        ELSE /\ GroupsInFixedOrder(f)
             /\ \A i \in DOMAIN f.alerts :
                   LET a == f.alerts[i] IN
                   IF a.type = "new_token"
                   THEN LineOf(f, i) = <<"- ">> \o a.message
                   ELSE /\ Shows(LineOf(f, i), a.symbol)
                        /\ Shows(LineOf(f, i),
                                 ToFixed(a.value, IF a.type = "volume_spike" THEN 0 ELSE 2))

\* four alerts in three groups given out of group order: two of one type
\* with different symbols, and a new_token whose message does not name it
C23_Witness ==
    \E f \in formatted :
        /\ Len(f.alerts) = 4
        /\ f.alerts[1].type = "new_token"
        /\ ~ Shows(f.alerts[1].message, f.alerts[1].symbol)
        /\ f.alerts[2].type = "volume_spike"
        /\ f.alerts[3].type = "price_surge"
        /\ f.alerts[4].type = "volume_spike"
        /\ f.alerts[2].symbol # f.alerts[4].symbol

(***************************************************************************)
(* dca.ts analyzeDCA.  Token amounts in base units are kept as a mantissa  *)
(* and a decimal exponent (10^18 does not fit a machine integer); the gas  *)
(* cost is counted in cents, the default 0.05 being 5.  The amounts of the *)
(* model divide evenly by the cycle counts (see AmountsExact).             *)
(***************************************************************************)
TOKEN_ADDRESSES ==
    [ETH |-> [address |-> "0x049d36570d4e46f48e99674bd3fcc84644ddd6b96f7c741b1562b82f9e004dc7",
              decimals |-> 18],
     STRK |-> [address |-> "0x04718f5a0fc34cc1af16a1cdee98ffb20c31f5cd61d6ab07201858f4287c938d",
               decimals |-> 18],
     USDC |-> [address |-> "0x053c91253bc9682c04929ca02ed00b3e423f6710d2ee7e0d5ebb06f3ecf368a8",
               decimals |-> 6],
     USDT |-> [address |-> "0x068f5c6a61780768455de69077e07e89787839bf8166decfbf92b645209c0fb8",
               decimals |-> 6],
     DAI |-> [address |-> "0x00da114221cb83fa859dbdb4c44beeaa0bb37c7537ad5ae66fe5e0efd20e6eb3",
              decimals |-> 18],
     WBTC |-> [address |-> "0x03fe2b97c1fd336e750087d68b9b867997fd64a2661ff3ca5a7c771641e8e7ac",
               decimals |-> 8],
     LORDS |-> [address |-> "0x0124aeb495b947201f5fac96fd1138e326ad86195b98df6dec9009158a533b49",
                decimals |-> 18],
     ZEND |-> [address |-> "0x00585c32b625999e6e5e78645ff8df7a9001cf5cf3eb6b80ccdd16cb64bd3a34",
               decimals |-> 18],
     BROTHER |-> [address |-> "0x03b405a98c9e795d427fe82cdeeeed803f221b52471e3a757574a2b4180793ee",
                  decimals |-> 18],
     NSTR |-> [address |-> "0x04d74d2d1f9e8c7cc4f22fce00a6bda5f6c5ece0c3b5f76d6e3b5c2e8f9a1b2c3",
               decimals |-> 18]]

FREQUENCY_CYCLES_PER_MONTH == [hourly |-> 720, daily |-> 30, weekly |-> 4, monthly |-> 1]

\* mutant: ETH taken where the table has no entry
TokenInfo_DefaultsToEth(symbol) ==
    IF ToUpperCase(symbol) \in DOMAIN TOKEN_ADDRESSES
    THEN {TOKEN_ADDRESSES[ToUpperCase(symbol)]}
    ELSE {TOKEN_ADDRESSES["ETH"]}

\* TOKEN_ADDRESSES[symbol.toUpperCase()]: the entry, or nothing (undefined)
TokenInfo(symbol) ==
    IF ToUpperCase(symbol) \in DOMAIN TOKEN_ADDRESSES
    THEN {TOKEN_ADDRESSES[ToUpperCase(symbol)]}
    ELSE { }

\* ethers parseUnits / formatUnits on whole amounts
parseUnits(amount, decimals) == [mantissa |-> amount, exponent |-> decimals]

formatUnits(raw, decimals) ==
    IF raw.exponent = decimals THEN raw.mantissa ELSE 0

NumberOfCycles(params) ==
    IF "duration" \in DOMAIN params /\ params.duration # 0
    THEN params.duration
    ELSE FREQUENCY_CYCLES_PER_MONTH[params.frequency] * 3

Capitalized == [hourly |-> "Hourly", daily |-> "Daily", weekly |-> "Weekly", monthly |-> "Monthly"]

Recommendation(params, amountPerCycle) ==
    IF params.frequency = "hourly"
    THEN <<"High frequency DCA may incur significant gas costs. Consider daily or weekly.">>
    ELSE IF amountPerCycle < 10
    THEN <<"Low amount per cycle. Gas costs may be disproportionate.">>
    ELSE <<Capitalized[params.frequency], " DCA looks reasonable for ",
           ToString(params.totalAmount), " ", params.sellToken, " -> ", params.buyToken, ".">>

\* analyzeDCA up to `await getQuotes(...)`, or to the throw before it
analyzeDCA(params) ==
    /\ dca = {}
    /\ LET sellTokenInfo == TokenInfo(params.sellToken)
           buyTokenInfo == TokenInfo(params.buyToken)
           numberOfCycles == NumberOfCycles(params)
           amountPerCycle == params.totalAmount \div numberOfCycles
       IN IF sellTokenInfo = {} \/ buyTokenInfo = {}
          THEN dca' = {[phase |-> "thrown", params |-> params, error |-> "Unknown token",
                        requests |-> << >>]}
          ELSE LET sell == CHOOSE t \in sellTokenInfo : TRUE
                   buy == CHOOSE t \in buyTokenInfo : TRUE
               IN dca' = {[phase |-> "quoting", params |-> params, buyDecimals |-> buy.decimals,
                           numberOfCycles |-> numberOfCycles, amountPerCycle |-> amountPerCycle,
                           requests |-> << [sellTokenAddress |-> sell.address,
                                            buyTokenAddress |-> buy.address,
                                            sellAmount |-> parseUnits(amountPerCycle, sell.decimals),
                                            takerAddress |-> "0x0"] >>]}
    /\ UNCHANGED <<state, now, calls, outcome, alertConfig, tokens, alerts, pre, lastSeen,
                   everVerified, lastCall, snapshot, schedVars, formatted>>

\* the analyzeDCA call awaiting its quote, if any
Quoting == {call \in dca : call.phase = "quoting"}

\* analyzeDCA from the resolution of getQuotes to its return or throw
QuotesResolved(quotes) ==
    /\ \E call \in Quoting :
          /\ IF Len(quotes) = 0
             THEN dca' = {[phase |-> "thrown", params |-> call.params,
                           error |-> "Could not get quote for DCA analysis",
                           requests |-> call.requests]}
             ELSE LET quote == quotes[1]
                      buyAmountPerCycle == formatUnits(quote.buyAmount, call.buyDecimals)
                      currentPrice == call.amountPerCycle \div buyAmountPerCycle
                      gasCostPerCycle == IF "gasFees" \in DOMAIN quote /\ quote.gasFees # 0
                                         THEN quote.gasFees ELSE 5
                  IN dca' = {[phase |-> "returned", params |-> call.params,
                              requests |-> call.requests,
                              amountPerCycle |-> call.amountPerCycle,
                              numberOfCycles |-> call.numberOfCycles,
                              estimatedBuyAmount |-> buyAmountPerCycle * call.numberOfCycles,
                              currentPrice |-> currentPrice,
                              estimatedAvgPrice |-> currentPrice,
                              gasCostEstimate |-> gasCostPerCycle * call.numberOfCycles,
                              recommendation |-> Recommendation(call.params,
                                                                call.amountPerCycle)]}
    /\ UNCHANGED <<state, now, calls, outcome, alertConfig, tokens, alerts, pre, lastSeen,
                   everVerified, lastCall, snapshot, schedVars, formatted>>

\* getQuotes rejects: the await throws
QuotesRejected ==
    /\ \E call \in Quoting :
          /\ dca' = {[phase |-> "thrown", params |-> call.params, error |-> "getQuotes rejected",
                      requests |-> call.requests]}
    /\ UNCHANGED <<state, now, calls, outcome, alertConfig, tokens, alerts, pre, lastSeen,
                   everVerified, lastCall, snapshot, schedVars, formatted>>

\* the result or the error is handed to the caller
DcaReturn ==
    /\ \E call \in dca : call.phase \in {"returned", "thrown"}
    /\ dca' = {}
    /\ UNCHANGED <<state, now, calls, outcome, alertConfig, tokens, alerts, pre, lastSeen,
                   everVerified, lastCall, snapshot, schedVars, formatted>>

(***************************************************************************)
(* The callers of analyzeDCA: symbols in the table in either case, symbols *)
(* not in it, amounts that divide by every cycle count.                    *)
(***************************************************************************)
DcaSymbols == {"USDC", "eth", "strk", "DOGE"}

DcaAmounts == {2160, 43200}

DcaParams ==
    [sellToken : DcaSymbols, buyToken : DcaSymbols, totalAmount : DcaAmounts,
     frequency : DOMAIN FREQUENCY_CYCLES_PER_MONTH]
        \cup [sellToken : DcaSymbols, buyToken : DcaSymbols, totalAmount : DcaAmounts,
              frequency : {"daily"}, duration : {0, 2160}]

AmountsExact == \A params \in DcaParams : params.totalAmount % NumberOfCycles(params) = 0

\* what getQuotes resolves to for a request: no quote, or one buying a
\* whole token per cycle, with or without a gas fee
QuoteLists(call) ==
    { << >>,
      << [buyAmount |-> parseUnits(1, call.buyDecimals)] >>,
      << [buyAmount |-> parseUnits(1, call.buyDecimals), gasFees |-> 100] >> }

NextDca ==
    \/ \E params \in DcaParams : analyzeDCA(params)
    \/ \E call \in Quoting : \E quotes \in QuoteLists(call) : QuotesResolved(quotes)
    \/ QuotesRejected
    \/ DcaReturn

SpecDca == Init /\ [][NextDca]_vars

UnknownToken(symbol) == ToUpperCase(symbol) \notin DOMAIN TOKEN_ADDRESSES

\* C24: an analyzeDCA whose sell or buy symbol, uppercased, is not in
\* TOKEN_ADDRESSES throws "Unknown token" at once: it never waits for a
\* quote, it has requested none (so there is no retry and no other token
\* asked about), and it does not return an analysis.
C24_UnknownTokenFailsFast ==
    \A call \in dca :
        UnknownToken(call.params.sellToken) \/ UnknownToken(call.params.buyToken)
            => /\ call.phase = "thrown"
               /\ call.error = "Unknown token"
               /\ call.requests = << >>

\* a call selling a token of the table, written in lower case, for a token
\* that is not in it has thrown
C24_Witness ==
    \E call \in dca :
        /\ call.params.sellToken = "eth"
        /\ UnknownToken(call.params.buyToken)
        /\ call.phase = "thrown"

(***************************************************************************)
(* Overlapping checkAlerts calls, every returned call logged.  lastCall    *)
(* holds the last returned call with the calls returned before it chained  *)
(* behind (earlier), each with its alerts and with the number of calls     *)
(* that were awaiting their fetch when it returned.  The k-th call started *)
(* passes priceChangeThreshold k, which tells the calls of the log apart.  *)
(***************************************************************************)
ReturnLogged ==
    /\ ~ Idle
    /\ lastCall' = IF outcome = "returned"
                   THEN {[tokens |-> tokens, config |-> alertConfig, alerts |-> alerts,
                          pending |-> BagCardinality(calls), earlier |-> lastCall]}
                   ELSE lastCall
    /\ outcome' = "none"
    /\ alertConfig' = ResolveConfig(<< >>)
    /\ tokens' = << >>
    /\ alerts' = << >>
    /\ pre' = EmptyState(0)
    /\ UNCHANGED <<state, now, calls, lastSeen, everVerified, snapshot, schedVars, reportVars>>

RECURSIVE Completed(_)
\* the logged calls, oldest first
Completed(log) ==
    IF log = {} THEN << >>
    ELSE LET last == CHOOSE entry \in log : TRUE
         IN Append(Completed(last.earlier),
                   [tokens |-> last.tokens, config |-> last.config, alerts |-> last.alerts,
                    pending |-> last.pending])

Started == Len(Completed(lastCall)) + BagCardinality(calls)

OverlapConfig(k) == [priceChangeThreshold |-> k, watchlist |-> << >>]

CheckAlertsOverlapping ==
    /\ Started < MaxCalls
    /\ CheckAlertsCall(OverlapConfig(Started + 1))

OverlapRawTokens == RawFull({"ETH"}, {"0x1"}, {3}, {1, 4}, {6}, {{"AVNU"}})

NextOverlap ==
    \/ CheckAlertsOverlapping
    \/ \E call \in BagToSet(calls), rawData \in Batches(OverlapRawTokens) :
          FetchResolved(call, rawData)
    \/ \E call \in BagToSet(calls) : FetchRejected(call)
    \/ ReturnLogged

SpecOverlap == Init /\ [][NextOverlap]_vars

RECURSIVE OneAfterAnother(_, _)
\* the result of the first n calls of a list run one after another, nothing
\* overlapping, from the state the module starts with
OneAfterAnother(done, n) ==
    IF n = 0 THEN [state |-> EmptyState(0), alerts |-> << >>]
    ELSE CheckLoop(OneAfterAnother(done, n - 1).state, done[n].tokens, Len(done[n].tokens),
                   done[n].config)

\* C25: overlapping checkAlerts calls serialize at their fetch completions.
\* Each returned call has the alerts, and leaves the price, volume and
\* known-address state, of a run in which the calls returned so far were
\* made one after another in the order their fetches completed; a call
\* that returns found the state that the calls logged before it left.
C25_OverlapSerializes ==
    LET done == Completed(lastCall) IN
    /\ \A k \in DOMAIN done : done[k].alerts = OneAfterAnother(done, k).alerts
    /\ Idle => Memory(state) = Memory(OneAfterAnother(done, Len(done)).state)
    /\ Returned =>
          LET all == Append(done, [tokens |-> tokens, config |-> alertConfig])
          IN /\ Memory(pre) = Memory(OneAfterAnother(done, Len(done)).state)
             /\ alerts = OneAfterAnother(all, Len(all)).alerts
             /\ Memory(state) = Memory(OneAfterAnother(all, Len(all)).state)

\* two calls overlapped and the one started second completed first; the
\* other then reported a spike against the volume the second had recorded,
\* which the calls made in start order would not have produced
C25_Witness ==
    LET done == Completed(lastCall) IN
    /\ Idle
    /\ Len(done) = 2
    /\ done[1].pending = 1
    /\ done[1].config.priceChangeThreshold = 2
    /\ done[2].config.priceChangeThreshold = 1
    /\ \E k \in DOMAIN done[2].alerts : done[2].alerts[k].type = "volume_spike"
    /\ LET swapped == <<done[2], done[1]>>
       IN /\ OneAfterAnother(swapped, 1).alerts \o OneAfterAnother(swapped, 2).alerts
                # done[2].alerts \o done[1].alerts
          /\ Memory(OneAfterAnother(swapped, 2).state) # Memory(state)

(***************************************************************************)
(* Detection calls repeated over single records, every returned call       *)
(* logged: the same record and threshold met by different detector states. *)
(***************************************************************************)
RepeatRawTokens == RawFull({"ETH"}, {"0x1"}, {3}, {1, 4}, {-21, 4, 6}, {{"AVNU"}})

RepeatConfigs == {[priceChangeThreshold |-> t, watchlist |-> << >>] : t \in {5, 15}}

CheckAlertsLogged(config) ==
    /\ Started < MaxCalls
    /\ CheckAlertsCall(config)

NextRepeat ==
    \/ \E config \in RepeatConfigs : CheckAlertsLogged(config)
    \/ \E call \in BagToSet(calls), raw \in RepeatRawTokens : FetchResolved(call, <<raw>>)
    \/ \E call \in BagToSet(calls) : FetchRejected(call)
    \/ ReturnLogged

SpecRepeat == Init /\ [][NextRepeat]_vars

\* what the price alerts of record i among alertList say: type, value, severity
PriceVerdict(alertList, i) ==
    {[type |-> alertList[k].type, value |-> alertList[k].value,
      severity |-> alertList[k].severity] :
        k \in {j \in DOMAIN alertList : alertList[j].rec = i /\ IsPriceAlert(alertList[j])}}

\* C26: price alerts do not depend on the detector state.  Two considered
\* records with the same priceChange24h, met by calls with the same
\* priceChangeThreshold, get the same price verdict (none, or one alert of
\* the same type, value and severity), whatever state each call found; a
\* record at or over the threshold gets its alert on every call.
C26_PriceAlertsStateless ==
    Returned =>
        \A i \in ConsideredNow :
            /\ Abs(tokens[i].priceChange24h) >= alertConfig.priceChangeThreshold
                  => Cardinality(PriceVerdict(alerts, i)) = 1
            /\ LET done == Completed(lastCall) IN
               \A c \in DOMAIN done :
                   \A j \in ConsideredIdx(done[c].tokens, done[c].config) :
                       /\ done[c].tokens[j].priceChange24h = tokens[i].priceChange24h
                       /\ done[c].config.priceChangeThreshold = alertConfig.priceChangeThreshold
                       => PriceVerdict(done[c].alerts, j) = PriceVerdict(alerts, i)

\* the same record handed to two calls with the same threshold: the first
\* found an empty state and also reported a new token, the second found the
\* record's address known and reported the price alert alone
C26_Witness ==
    LET done == Completed(lastCall) IN
    /\ Returned
    /\ Len(done) = 1
    /\ done[1].tokens = tokens
    /\ done[1].config = alertConfig
    /\ Len(done[1].alerts) = 2
    /\ Len(alerts) = 1
    /\ IsPriceAlert(alerts[1])
    /\ pre.knownTokens # {}

(***************************************************************************)
(* Vocabulary of the scheduler properties.                                 *)
(***************************************************************************)
\* the executions of job tasks under way that a timer callback awaits
TimerCalls == {call \in BagToSet(calls) : call.via.origin = "timer"}

TimerRuns == {run \in BagToSet(jobRuns) : run.via.origin = "timer"}

RegistryKept == scheduledTasks' = scheduledTasks /\ cronTasks' = cronTasks

\* what jobStatus[name] holds after an execution that failed / that did not
FailureRecorded(name) ==
    /\ MapHas(jobStatus', name)
    /\ DOMAIN jobStatus'[name] = {"lastRun", "lastError"}
    /\ jobStatus'[name].lastRun = now

SuccessRecorded(name) ==
    /\ MapHas(jobStatus', name)
    /\ DOMAIN jobStatus'[name] = {"lastRun"}
    /\ jobStatus'[name].lastRun = now

\* C27: when the task a timer callback awaits throws, the callback catches
\* it: nothing is thrown to a caller of the scheduler API, the registry and
\* the timer tasks stay as they are (the job fires again), and
\* jobStatus[name] becomes {lastRun, lastError}; when the task completes
\* without throwing jobStatus[name] becomes {lastRun} alone, an earlier
\* lastError gone.
C27_TimerCallbackCatches ==
    /\ [][\A call \in TimerCalls :
             /\ FetchRejected(call)
                   => FailureRecorded(call.via.job) /\ RegistryKept /\ apiError' = apiError
             /\ (\E rawData \in SchedBatches : FetchResolved(call, rawData))
                   => SuccessRecorded(call.via.job) /\ RegistryKept]_vars
    /\ [][\A run \in TimerRuns :
             /\ JobRunSettled(run, TRUE)
                   => FailureRecorded(run.via.job) /\ RegistryKept /\ apiError' = apiError
             /\ JobRunSettled(run, FALSE)
                   => SuccessRecorded(run.via.job) /\ RegistryKept]_vars

\* a job whose last execution failed is still registered with a live timer
\* task, and another execution of it, started by a later fire, is under way
C27_Witness ==
    \E name \in DOMAIN jobStatus :
        /\ "lastError" \in DOMAIN jobStatus[name]
        /\ MapHas(scheduledTasks, name)
        /\ cronTasks[scheduledTasks[name]].live
        /\ \E x \in TimerCalls \cup TimerRuns : x.via.job = name

\* the timer tasks of a name that have not been stopped
Live(tasks, name) == {id \in DOMAIN tasks : tasks[id].name = name /\ tasks[id].live}

JobNames == {cronTasks[id].name : id \in DOMAIN cronTasks}

\* C28: at most one live timer task per job name, and it is the one the
\* registry holds for the name; a scheduleJob for a registered name leaves
\* the task it found there stopped; after stopScheduler no timer task is
\* live and the registry is empty.
C28_OneLiveTaskPerName ==
    /\ [](\A name \in JobNames :
             /\ Cardinality(Live(cronTasks, name)) <= 1
             /\ \A id \in Live(cronTasks, name) :
                   MapHas(scheduledTasks, name) /\ scheduledTasks[name] = id)
    /\ [][\A job \in CustomJobs :
             scheduleJob(job) /\ MapHas(scheduledTasks, job.name)
                => ~ cronTasks'[scheduledTasks[job.name]].live]_vars
    /\ [][stopScheduler
             => /\ scheduledTasks' = << >>
                /\ \A id \in DOMAIN cronTasks' : ~ cronTasks'[id].live]_vars

\* a job scheduled a second time: its first timer task stopped, its second
\* live and registered, next to the live task of another job
C28_Witness ==
    \E id \in DOMAIN cronTasks, old \in DOMAIN cronTasks :
        /\ old < id
        /\ cronTasks[old].name = cronTasks[id].name
        /\ ~ cronTasks[old].live
        /\ cronTasks[id].live
        /\ scheduledTasks[cronTasks[id].name] = id
        /\ \E other \in DOMAIN cronTasks :
              cronTasks[other].name # cronTasks[id].name /\ cronTasks[other].live

\* C29: a scheduleJob that throws "Invalid cron expression" leaves the
\* scheduler as it was: the registry and every timer task unchanged, a job
\* registered under the name still running.
C29_FailedScheduleChangesNothing ==
    [][\A job \in CustomJobs :
          scheduleJob(job) /\ apiError' = "Invalid cron expression"
             => /\ scheduledTasks' = scheduledTasks
                /\ cronTasks' = cronTasks]_vars

\* the tasks started by a step: executions under way after it and not before
StartedTasks ==
    {"alerts" : call \in {c \in BagToSet(calls') : CopiesIn(c, calls') > CopiesIn(c, calls)}}
        \cup {run.task : run \in {r \in BagToSet(jobRuns') :
                                      CopiesIn(r, jobRuns') > CopiesIn(r, jobRuns)}}

\* C30: runJobNow(name) runs the task of the job registered under the name,
\* default job or job registered through scheduleJob, once; for a name
\* with no job it throws "Unknown job" and starts nothing; either way the
\* registry and jobStatus stay as they are.
C30_RunsTheRegisteredJob ==
    [][\A jobName \in RunNames :
          runJobNow(jobName)
             => /\ scheduledTasks' = scheduledTasks
                /\ cronTasks' = cronTasks
                /\ jobStatus' = jobStatus
                /\ IF MapHas(scheduledTasks, jobName)
                   THEN /\ apiError' = ""
                        /\ StartedTasks = {cronTasks[scheduledTasks[jobName]].task}
                        /\ BagCardinality(calls') + BagCardinality(jobRuns')
                              = BagCardinality(calls) + BagCardinality(jobRuns) + 1
                   ELSE IF DefaultJobNamed(jobName) = {}
                        THEN apiError' = "Unknown job" /\ StartedTasks = {}
                        ELSE TRUE]_vars

====
